---- MODULE Spec2Model ----
(***************************************************************************)
(* Verification model of the city-builder simulation core:                 *)
(*   src/src/grid.rs        Grid::find_path (A* over an accessibility      *)
(*                          predicate)                                     *)
(*   src/src/citizen.rs     spawn_citizens / update_citizens,              *)
(*                          spawn_vehicles / update_vehicles               *)
(*   src/src/town.rs        handle_town_interaction (zone/building edits)  *)
(*   src/src/simulation.rs  update_population, update_economy,             *)
(*                          update_resources, update_happiness             *)
(*                                                                         *)
(* The specifications share the variables:                                 *)
(*   SpecPath        one call of Grid::find_path, one loop iteration per   *)
(*                   step                                                  *)
(*   SpecSpawn       the town view: grid edits and spawn_citizens          *)
(*   SpecTown        the town view: grid edits and both resident systems   *)
(*   SpecEdit        the town view: the grid editor with all its tools     *)
(*   SpecAgents      the town view: spawn_citizens and spawn_vehicles      *)
(*   SpecPopulation  update_population applied to drawn populations        *)
(*   SpecIsland      the island view: buying land and founding towns       *)
(*   SpecVehicles    the town view: both vehicle systems, with the call of *)
(*                   find_path made by spawn_vehicles                      *)
(*   SpecVehicleCap  the vehicle systems up to the cap on vehicles         *)
(*   SpecSim         update_resources applied to drawn town metrics        *)
(*   SpecEconomy     update_economy applied to drawn town metrics          *)
(*   SpecHappiness   update_happiness applied to drawn town metrics        *)
(*   SpecMetrics     the frames of the four metric systems                 *)
(*   SpecSchedule    the frames of the metric, resident and vehicle        *)
(*                   systems together                                      *)
(* Each specification leaves the variables of the others unchanged.        *)
(***************************************************************************)
EXTENDS Integers, Sequences, FiniteSets, TLC

None == "None"

----------------------------------------------------------------------------
(* Bounds of the path-search model *)

\* largest grid size passed to find_path in the exhaustive part of PathInit
MaxSize == 3

\* i32::MAX, the default of unwrap_or in find_path
I32Max == 2147483647

----------------------------------------------------------------------------
(* Path search state: the locals of Grid::find_path *)

VARIABLES
    pf_size,      \* argument size
    pf_acc,       \* the cells on which is_accessible is true
    pf_start,     \* argument start
    pf_goal,      \* argument goal
    open_set,     \* BinaryHeap<Node>, as the set of its nodes <<f_score, position>>
    came_from,    \* HashMap position -> predecessor
    g_score,      \* HashMap position -> cost
    path,         \* the Vec being built by the reconstruction loop
    pf_cur,       \* the variable current of the reconstruction loop
    pf_pc,        \* "search" | "reconstruct" | "done"
    pf_result,    \* None, or the returned Vec<IVec2>
    pf_expanded   \* number of loop iterations that reached the neighbour loop

pfVars == <<pf_size, pf_acc, pf_start, pf_goal, open_set, came_from, g_score,
            path, pf_cur, pf_pc, pf_result, pf_expanded>>

----------------------------------------------------------------------------
(* Bounds and constants of the town model *)

\* side of the town grid in the model (the program's TOWN_GRID_SIZE is 50)
TOWN_GRID_SIZE == 2

\* left clicks a run may make
MaxEdits == 3

\* times a run may leave the town view
MaxExits == 1

\* a timer finishes within this many frames of being set: its duration is drawn
\* at random and every frame's delta is an arbitrary positive time, so the number
\* of frames a timer lasts is any positive number
MaxTimerFrames == 2

\* residents a run of SpecSpawn may create
MaxSpawned == 6

\* residents a run of SpecTown may create
MaxResidents == 1

\* vehicles a run of SpecVehicles holds at a time
MaxVehicles == 2

\* citizen.rs 88: each residential zone can house 5 citizens
CitizensPerZone == 5

\* town.rs 123: world units between the centres of neighbouring cells
CellPitch == 12

\* citizen.rs 185: a resident closer than this to its target has arrived
ArriveRadius == 5

\* world units a resident walks in the longest frame: 20 units/s (citizen.rs 182)
\* for the 0.25 s at which the engine caps a frame's delta
MaxStride == 5

----------------------------------------------------------------------------
(* Town state: the entities and system locals of town.rs and citizen.rs *)

VARIABLES
    view,           \* State<GameState>: "TownView" | "IslandView"
    next_state,     \* NextState<GameState>: None, or the state asked for
    cells,          \* the TownCell entities: position -> [zone, building, accessible]
    selected_tool,  \* Local<SelectedTool> of handle_town_interaction
    citizens,       \* the Citizen entities with their Transform, in spawn order
    spawn_q,        \* Commands of this frame not yet applied: residents to spawn
    spawn_timer,    \* Local<Timer> of spawn_citizens: frames until it finishes, 0 = default
    last_spawn,     \* what the latest spawn_citizens that passed its timer saw and did
    ran,            \* the systems that have run in the current frame, in the order they ran
    edits,          \* left clicks made so far
    exits,          \* exits from the town view so far
    last_click,     \* the grid position left-clicked in the current frame, or NoCell
    fired,          \* the spawn systems whose timer has just finished in the current frame
    island,         \* Res<Island>: [grid, owned_cells, towns]
    vehicles,       \* the Vehicle entities with their Transform, in spawn order
    vehicle_q,      \* Commands of this frame not yet applied: vehicles to spawn
    despawn_q,      \* Commands of this frame not yet applied: indices of vehicles to despawn
    vehicle_timer,  \* Local<Timer> of spawn_vehicles: frames until it finishes, 0 = default
    sv              \* the call of spawn_vehicles waiting for find_path, if any

vehVars == <<vehicles, vehicle_q, despawn_q, vehicle_timer, sv>>

\* the town state but for the record of the systems run
townRest == <<view, next_state, cells, selected_tool, citizens, spawn_q,
              spawn_timer, last_spawn, edits, exits, last_click, fired, island,
              vehVars>>

townVars == <<townRest, ran>>

----------------------------------------------------------------------------
(* Bounds of the town-metric model *)

\* largest Population.total drawn
MaxPopulation == 20

\* runs of a metric system, and frames of the metric systems, in a run
MaxTicks == 2

----------------------------------------------------------------------------
(* Town-metric state: the resources of simulation.rs *)

VARIABLES
    resources,      \* Option<ResMut<Resources>>: [present, power, water, goods, services]
    population,     \* Option<Res<Population>>: [present, total, employed]
    prior,          \* the value of resources before the latest update_resources
    sim_ticks,      \* runs of the metric systems so far
    economy,        \* Option<ResMut<Economy>>: [present, funds, income, expenses, tax_rate]
    town,           \* Option<ResMut<Town>>: [present, happiness]
    prior_funds     \* the value of economy.funds before the latest update_economy

simVars == <<resources, population, prior, sim_ticks, economy, town, prior_funds>>

vars == <<pfVars, townVars, simVars>>

----------------------------------------------------------------------------
(* grid.rs helpers *)

Abs(n) == IF n < 0 THEN -n ELSE n

Cells(size) == (0 .. size - 1) \X (0 .. size - 1)

\* mutant: the +x neighbour is mistyped as a second -x neighbour
OrthogonalMistyped(pos) ==
    << <<pos[1], pos[2] - 1>>, <<pos[1] - 1, pos[2]>>,
       <<pos[1] - 1, pos[2]>>, <<pos[1], pos[2] + 1>> >>

get_orthogonal_positions(pos) ==
    << <<pos[1], pos[2] - 1>>, <<pos[1] - 1, pos[2]>>,
       <<pos[1] + 1, pos[2]>>, <<pos[1], pos[2] + 1>> >>

is_in_bounds(pos, size) ==
    pos[1] >= 0 /\ pos[1] < size /\ pos[2] >= 0 /\ pos[2] < size

manhattan_distance(pos1, pos2) == Abs(pos1[1] - pos2[1]) + Abs(pos1[2] - pos2[2])

----------------------------------------------------------------------------
(* Grid::find_path, grid.rs 61-134 *)

\* g_score.get(&pos).unwrap_or(&i32::MAX)
GScore(g, pos) == IF pos \in DOMAIN g THEN g[pos] ELSE I32Max

\* HashMap::insert
Insert(m, k, v) == [x \in DOMAIN m \cup {k} |-> IF x = k THEN v ELSE m[x]]

\* the closure is_accessible handed to find_path
is_accessible(pos) == pos \in pf_acc

\* mutant: the ordering of Node is not reversed, the heap yields a greatest f_score
HeapTopMax(heap) == {n \in heap : \A m \in heap : n[1] >= m[1]}

\* grid.rs 77-82: Ord for Node is reversed on f_score, so BinaryHeap::pop yields
\* a node of least f_score; which one among equal f_scores is left to the heap
HeapTop(heap) == {n \in heap : \A m \in heap : n[1] <= m[1]}

\* mutant: the goal test does not fire on the start cell
IsGoalNotStart(current) == current[2] = pf_goal /\ current[2] # pf_start

\* grid.rs 101: current.position == goal
IsGoal(current) == current[2] = pf_goal

\* mutant: the accessibility test is dropped
SkippedBoundsOnly(neighbor) == ~is_in_bounds(neighbor, pf_size)

\* mutant: && for ||, a neighbour is skipped only when both tests fail
SkippedBoth(neighbor) == ~is_in_bounds(neighbor, pf_size) /\ ~is_accessible(neighbor)

\* mutant: the goal cell is let through whatever is_accessible says
SkippedGoalExempt(neighbor) ==
    \/ ~is_in_bounds(neighbor, pf_size)
    \/ (neighbor # pf_goal /\ ~is_accessible(neighbor))

\* grid.rs 116: the neighbour is passed over
Skipped(neighbor) == ~is_in_bounds(neighbor, pf_size) \/ ~is_accessible(neighbor)

\* grid.rs 121: the relaxation test
Improves(tentative_g, g, neighbor) == tentative_g < GScore(g, neighbor)

\* grid.rs 116-129: the body of the neighbour loop, on st = [open, came, g]
VisitNeighbor(st, cur, current_g, neighbor) ==
    IF Skipped(neighbor) THEN st
    ELSE LET tentative_g == current_g + 1 IN
         IF Improves(tentative_g, st.g, neighbor)
         THEN [open |-> st.open \cup
                          {<<tentative_g + manhattan_distance(neighbor, pf_goal), neighbor>>},
               came |-> Insert(st.came, neighbor, cur),
               g    |-> Insert(st.g, neighbor, tentative_g)]
         ELSE st

\* grid.rs 115: for neighbor in get_orthogonal_positions(current.position)
RECURSIVE VisitNeighbors(_, _, _, _, _)
VisitNeighbors(st, cur, current_g, nbrs, i) ==
    IF i > Len(nbrs) THEN st
    ELSE VisitNeighbors(VisitNeighbor(st, cur, current_g, nbrs[i]),
                        cur, current_g, nbrs, i + 1)

\* mutant: path.reverse() is forgotten
ReverseForgotten(s) == s

\* Vec::reverse
RECURSIVE Reverse(_)
Reverse(s) == IF s = <<>> THEN <<>> ELSE Append(Reverse(Tail(s)), Head(s))

\* grid.rs 100, 133: the heap is empty, the loop ends and None is returned
FindPathExhausted ==
    /\ pf_pc = "search"
    /\ open_set = {}
    /\ pf_result' = None
    /\ pf_pc' = "done"
    /\ UNCHANGED <<pf_size, pf_acc, pf_start, pf_goal, open_set, came_from,
                   g_score, path, pf_cur, pf_expanded>>
    /\ UNCHANGED <<townVars, simVars>>

\* grid.rs 100-104: the popped node is the goal; the reconstruction starts
FindPathGoal ==
    /\ pf_pc = "search"
    /\ \E current \in HeapTop(open_set) :
         /\ IsGoal(current)
         /\ open_set' = open_set \ {current}
    /\ path' = <<pf_goal>>
    /\ pf_cur' = pf_goal
    /\ pf_pc' = "reconstruct"
    /\ UNCHANGED <<pf_size, pf_acc, pf_start, pf_goal, came_from, g_score,
                   pf_result, pf_expanded>>
    /\ UNCHANGED <<townVars, simVars>>

\* grid.rs 100, 113-130: the popped node is not the goal; its neighbours are relaxed
FindPathExpand ==
    /\ pf_pc = "search"
    /\ \E current \in HeapTop(open_set) :
         /\ ~IsGoal(current)
         /\ LET current_g == GScore(g_score, current[2])
                st == VisitNeighbors([open |-> open_set \ {current},
                                      came |-> came_from, g |-> g_score],
                                     current[2], current_g,
                                     get_orthogonal_positions(current[2]), 1)
            IN /\ open_set' = st.open
               /\ came_from' = st.came
               /\ g_score' = st.g
    /\ pf_expanded' = pf_expanded + 1
    /\ UNCHANGED <<pf_size, pf_acc, pf_start, pf_goal, path, pf_cur, pf_pc, pf_result>>
    /\ UNCHANGED <<townVars, simVars>>

\* grid.rs 105-110: one turn of the reconstruction loop, or its end and the return
FindPathReconstruct ==
    /\ pf_pc = "reconstruct"
    /\ IF pf_cur \in DOMAIN came_from
       THEN /\ path' = Append(path, came_from[pf_cur])
            /\ pf_cur' = came_from[pf_cur]
            /\ UNCHANGED <<pf_pc, pf_result>>
       ELSE /\ pf_result' = Reverse(path)
            /\ pf_pc' = "done"
            /\ UNCHANGED <<path, pf_cur>>
    /\ UNCHANGED <<pf_size, pf_acc, pf_start, pf_goal, open_set, came_from,
                   g_score, pf_expanded>>
    /\ UNCHANGED <<townVars, simVars>>

\* grid.rs 90-98: the state of find_path(start, goal, is_accessible, size) at loop entry
FindPathEntry(size, acc, start, goal) ==
    /\ pf_size = size
    /\ pf_acc = acc
    /\ pf_start = start
    /\ pf_goal = goal
    /\ open_set = {<<manhattan_distance(start, goal), start>>}
    /\ came_from = <<>>
    /\ g_score = [p \in {start} |-> 0]
    /\ path = <<>>
    /\ pf_cur = start
    /\ pf_pc = "search"
    /\ pf_result = None
    /\ pf_expanded = 0

\* the straight-line scenario: a 10x10 grid whose road cells are (x,2), x in 2..7
Scenario == [size |-> 10, road |-> {<<x, 2>> : x \in 2 .. 7}]

\* every call on a grid of size 1..MaxSize, and the straight-line scenario
PathInit ==
    \/ \E size \in 1 .. MaxSize :
         \E acc \in SUBSET Cells(size) :
           \E start \in Cells(size), goal \in Cells(size) :
              FindPathEntry(size, acc, start, goal)
    \/ FindPathEntry(Scenario.size, Scenario.road, <<2, 2>>, <<7, 2>>)

PathNext ==
    \/ FindPathExhausted
    \/ FindPathGoal
    \/ FindPathExpand
    \/ FindPathReconstruct

\* no call of find_path is in progress
PathIdle ==
    /\ pf_size = 0 /\ pf_acc = {} /\ pf_start = <<0, 0>> /\ pf_goal = <<0, 0>>
    /\ open_set = {} /\ came_from = <<>> /\ g_score = <<>> /\ path = <<>>
    /\ pf_cur = <<0, 0>> /\ pf_pc = "idle" /\ pf_result = None /\ pf_expanded = 0

----------------------------------------------------------------------------
(* town.rs: the grid and its editing *)

Coords == Cells(TOWN_GRID_SIZE)

\* town.rs 107-112: the cell setup_town creates at every position
DefaultCell == [zone |-> "None", building |-> "None", accessible |-> FALSE]

\* town.rs 102-132: setup_town, on entering the town view
FreshGrid == [c \in Coords |-> DefaultCell]

\* town.rs 156-166: the ToolButton components setup_town_ui creates
ToolButtons ==
    {[building_type |-> b, zone_type |-> "None"] :
        b \in {"Road", "TownHall", "PowerPlant", "WaterTower"}}
    \cup {[building_type |-> "None", zone_type |-> z] :
        z \in {"Residential", "Commercial", "Industrial"}}

\* town.rs 260-264: SelectedTool::default()
NoTool == [building_type |-> None, zone_type |-> None]

\* no tool button was pressed in this frame
NoButton == [building_type |-> "None", zone_type |-> "None"]

\* no left click was made in this frame; Option::None of a cell position
NoCell == <<>>

\* town.rs 278-288: a pressed tool button selects its building or its zone
SelectTool(tool, button) ==
    IF button.building_type # "None"
    THEN [building_type |-> button.building_type, zone_type |-> None]
    ELSE IF button.zone_type # "None"
         THEN [building_type |-> None, zone_type |-> button.zone_type]
         ELSE tool

\* town.rs 302: the clicked grid position is within the grid
ClickInGrid(g) ==
    g[1] >= 0 /\ g[1] < TOWN_GRID_SIZE /\ g[2] >= 0 /\ g[2] < TOWN_GRID_SIZE

\* mutant: a building is placed without clearing the zone of the cell
ApplyToolKeepingZone(tool, cell) ==
    IF tool.building_type # None
    THEN [cell EXCEPT !.building = tool.building_type]
    ELSE IF tool.zone_type # None
         THEN [cell EXCEPT !.zone = tool.zone_type,
                           !.building = IF cell.building # "Road" THEN "None"
                                        ELSE cell.building]
         ELSE cell

\* town.rs 306-315: the selected tool applied to one cell
ApplyTool(tool, cell) ==
    IF tool.building_type # None
    THEN [cell EXCEPT !.building = tool.building_type, !.zone = "None"]
    ELSE IF tool.zone_type # None
         THEN [cell EXCEPT !.zone = tool.zone_type,
                           !.building = IF cell.building # "Road" THEN "None"
                                        ELSE cell.building]
         ELSE cell

\* mutant: a click off the grid edits the nearest cell of the grid
ClickCellClamped(grid, tool, g) ==
    LET Clamp(k) == IF k < 0 THEN 0
                    ELSE IF k >= TOWN_GRID_SIZE THEN TOWN_GRID_SIZE - 1 ELSE k
        near == <<Clamp(g[1]), Clamp(g[2])>>
    IN [c \in DOMAIN grid |-> IF c = near THEN ApplyTool(tool, grid[c]) ELSE grid[c]]

\* town.rs 302-321: a left click at grid position g
ClickCell(grid, tool, g) ==
    IF ClickInGrid(g)
    THEN [c \in DOMAIN grid |-> IF c = g THEN ApplyTool(tool, grid[c]) ELSE grid[c]]
    ELSE grid

\* the ToolButton of a zone type, of a building type
ZoneButton(z) == [building_type |-> "None", zone_type |-> z]
BuildingButton(b) == [building_type |-> b, zone_type |-> "None"]

\* a grid position off the grid, where a click changes nothing
OffGrid == <<-1, 0>>

\* a system of the Update schedule has run in the current frame
HasRun(system) == \E i \in 1 .. Len(ran) : ran[i] = system

\* each of the systems has run once in the current frame, and no other
HaveRun(systems) == Len(ran) = Cardinality(systems) /\ \A s \in systems : HasRun(s)

\* town.rs 267-330: handle_town_interaction, with this frame's input: the tool
\* button pressed (one of buttons, or NoButton), the left click's grid position
\* (one of targets, or NoCell), and whether the right button was pressed
HandleTownInteraction(buttons, targets) ==
    /\ view = "TownView"
    /\ ~HasRun("handle_town_interaction")
    /\ ran' = Append(ran, "handle_town_interaction")
    /\ \E button \in (buttons \cap ToolButtons) \cup {NoButton},
          left \in targets \cup {NoCell},
          right \in BOOLEAN :
         /\ left # NoCell => edits < MaxEdits
         /\ right => exits < MaxExits
         /\ selected_tool' = SelectTool(selected_tool, button)
         /\ cells' = IF left = NoCell THEN cells
                     ELSE ClickCell(cells, selected_tool', left)
         /\ edits' = IF left = NoCell THEN edits ELSE edits + 1
         /\ last_click' = left
         /\ next_state' = IF right THEN "IslandView" ELSE next_state
    /\ UNCHANGED <<view, citizens, spawn_q, spawn_timer, last_spawn, exits, fired, island>>
    /\ UNCHANGED <<vehVars, pfVars, simVars>>

----------------------------------------------------------------------------
(* citizen.rs: residents *)

\* Timer::from_seconds(rng.gen_range(..), TimerMode::Once): a timer that will
\* finish on the left-th tick from now
NewTimers(frames) == {[left |-> k, just_finished |-> FALSE] : k \in frames}

\* mutant: every tick finishes the timer
TickOnceEager(t) == [left |-> 0, just_finished |-> TRUE]

\* Timer::tick on a TimerMode::Once timer: a finished timer stays finished and is
\* just_finished only on the tick that finishes it
TickOnce(t) ==
    IF t.left = 0 THEN [left |-> 0, just_finished |-> FALSE]
    ELSE [left |-> t.left - 1, just_finished |-> (t.left = 1)]

\* a Transform's translation is [nan, from, to, gone]: the point gone world units
\* from the centre of cell from on the way to the centre of cell to, or NaN.
\* The Transform of an entity standing on the centre of cell c
\* (citizen.rs 114-118: ((c - TOWN_GRID_SIZE/2) * 12, 1.0))
AtCell(c) == [nan |-> FALSE, from |-> c, to |-> c, gone |-> 0]

\* the positions of the cells of the given zone types (citizen.rs 74-85)
ZoneCells(grid, zones) == {c \in DOMAIN grid : grid[c].zone \in zones}

\* citizen.rs 88
MaxCitizens(residential_zones) == Cardinality(residential_zones) * CitizensPerZone

\* mutant: > for >=, a full town takes one more resident
AtCapacityExceeded(live, max_citizens) == live > max_citizens

\* citizen.rs 89: the capacity is used up, nothing is spawned
AtCapacity(live, max_citizens) == live >= max_citizens

\* mutant: a new resident is headed for its workplace
NewCitizenAway(home, workplace, timer) ==
    [home |-> home, workplace |-> workplace, destination |-> workplace,
     state |-> "AtHome", timer |-> timer, pos |-> AtCell(home)]

\* mutant: the spawn systems go on whatever their timer says
NotYetNever(just_finished) == FALSE

\* citizen.rs 69-71, 256-258: if !timer.just_finished() { return; }
NotYet(just_finished) == ~just_finished

\* citizen.rs 121-128: the Citizen component and Transform of a new resident
NewCitizen(home, workplace, timer) ==
    [home |-> home, workplace |-> workplace, destination |-> home,
     state |-> "AtHome", timer |-> timer, pos |-> AtCell(home)]

\* citizen.rs 55-131: spawn_citizens; a run creates at most maxLive residents, and
\* a new resident's timer lasts one of the given numbers of frames
SpawnCitizens(maxLive, frames) ==
    /\ view = "TownView"
    /\ ~HasRun("spawn_citizens")
    /\ ran' = Append(ran, "spawn_citizens")
    /\ \E period \in 1 .. MaxTimerFrames :
         \* 63-65: a default timer (duration zero) becomes the 2 s repeating timer
         LET armed == IF spawn_timer = 0 THEN period ELSE spawn_timer
             \* 68-69: tick; a repeating timer that finishes starts over
             just_finished == (armed = 1)
         IN /\ spawn_timer' = IF just_finished THEN period ELSE armed - 1
            /\ fired' = IF just_finished THEN fired \cup {"spawn_citizens"} ELSE fired
            /\ island' = island
            /\ IF NotYet(just_finished)
               THEN UNCHANGED <<spawn_q, last_spawn>>
               ELSE LET residential_zones == ZoneCells(cells, {"Residential"})
                        workplaces == ZoneCells(cells, {"Commercial", "Industrial"})
                        max_citizens == MaxCitizens(residential_zones)
                        live == Len(citizens)
                        seen == [residential |-> Cardinality(residential_zones),
                                 live |-> live, created |-> FALSE]
                    IN IF AtCapacity(live, max_citizens) \/ residential_zones = {}
                       THEN /\ spawn_q' = spawn_q
                            /\ last_spawn' = seen
                       ELSE /\ live < maxLive
                            /\ \E home \in residential_zones,
                                  workplace \in (IF workplaces # {} THEN workplaces
                                                 ELSE {NoCell}),
                                  timer \in NewTimers(frames) :
                                 spawn_q' = Append(spawn_q,
                                                   NewCitizen(home, workplace, timer))
                            /\ last_spawn' = [seen EXCEPT !.created = TRUE]
    /\ UNCHANGED <<view, next_state, cells, selected_tool, citizens, edits, exits,
                   last_click>>
    /\ UNCHANGED <<vehVars, pfVars, simVars>>

\* the whole part of the square root of n
ISqrt(n) == CHOOSE r \in 0 .. n : r * r <= n /\ (r + 1) * (r + 1) > n

\* world units between the centres of cells a and b, in whole units
CellDistance(a, b) ==
    ISqrt(CellPitch * CellPitch *
          ((a[1] - b[1]) * (a[1] - b[1]) + (a[2] - b[2]) * (a[2] - b[2])))

\* a translation with NaN coordinates
NaNPos == [nan |-> TRUE, from |-> <<0, 0>>, to |-> <<0, 0>>, gone |-> 0]

\* the cell on whose centre the position is, or NoCell
StandsOn(pos) ==
    IF pos.gone = 0 THEN pos.from
    ELSE IF pos.gone = CellDistance(pos.from, pos.to) THEN pos.to
    ELSE NoCell

\* citizen.rs 181-182, 207-208, 225-226: one stride towards the centre of cell
\* target; a resident travels from a cell centre, or turns back on the segment it
\* came along. normalize() of the zero vector is NaN, and NaN stays NaN
Step(pos, target, stride) ==
    CASE pos.nan -> pos
      [] ~pos.nan /\ StandsOn(pos) = target -> NaNPos
      [] ~pos.nan /\ StandsOn(pos) \notin {target, NoCell} ->
            [nan |-> FALSE, from |-> StandsOn(pos), to |-> target, gone |-> stride]
      [] ~pos.nan /\ StandsOn(pos) = NoCell /\ pos.to = target ->
            [pos EXCEPT !.gone = @ + stride]
      [] ~pos.nan /\ StandsOn(pos) = NoCell /\ pos.to # target /\ pos.from = target ->
            [nan |-> FALSE, from |-> pos.to, to |-> pos.from,
             gone |-> CellDistance(pos.from, pos.to) - pos.gone + stride]

\* citizen.rs 185, 211, 229: translation.distance(target) < 5.0, for a position
\* that has just stepped towards target; a NaN distance is below nothing
Arrived(pos) == ~pos.nan /\ CellDistance(pos.from, pos.to) - pos.gone < ArriveRadius

\* mutant: a resident without a workplace may set out for work
HasWorkplaceAlways(c) == TRUE

\* citizen.rs 151: citizen.workplace.is_some()
HasWorkplace(c) == c.workplace # NoCell

\* citizen.rs 142-236: the loop body of update_citizens for one resident, as the
\* set of its outcomes over the random draws; stride is 20 * delta
CitizenSteps(c, grid, stride, frames) ==
    LET t == TickOnce(c.timer)
        ticked == [c EXCEPT !.timer = t]
        commercial_zones == ZoneCells(grid, {"Commercial"})
        timers == NewTimers(frames)
    IN CASE c.state = "AtHome" ->
              IF ~t.just_finished THEN {ticked}
              ELSE {[ticked EXCEPT !.destination = c.workplace,
                                   !.state = "GoingToWork", !.timer = nt] :
                        nt \in IF HasWorkplace(c) THEN timers ELSE {}}
                   \cup
                   (IF commercial_zones # {}
                    THEN {[ticked EXCEPT !.destination = z, !.state = "Shopping",
                                         !.timer = nt] :
                             z \in commercial_zones, nt \in timers}
                    ELSE {[ticked EXCEPT !.timer = nt] : nt \in timers})
         [] c.state = "GoingToWork" ->
              LET moved == Step(c.pos, c.destination, stride)
              IN IF Arrived(moved)
                 THEN {[ticked EXCEPT !.pos = AtCell(c.destination),
                                      !.state = "AtWork", !.timer = nt] :
                          nt \in timers}
                 ELSE {[ticked EXCEPT !.pos = moved]}
         [] c.state = "AtWork" ->
              IF ~t.just_finished THEN {ticked}
              ELSE {[ticked EXCEPT !.destination = c.home, !.state = "GoingHome",
                                   !.timer = nt] : nt \in timers}
         [] c.state = "GoingHome" ->
              LET moved == Step(c.pos, c.home, stride)
              IN IF Arrived(moved)
                 THEN {[ticked EXCEPT !.pos = AtCell(c.home),
                                      !.state = "AtHome", !.timer = nt] :
                          nt \in timers}
                 ELSE {[ticked EXCEPT !.pos = moved]}
         [] c.state = "Shopping" ->
              LET moved == Step(c.pos, c.destination, stride)
              IN IF Arrived(moved)
                 THEN {[ticked EXCEPT !.pos = moved, !.destination = c.home,
                                      !.state = "GoingHome", !.timer = nt] :
                          nt \in timers}
                 ELSE {[ticked EXCEPT !.pos = moved]}

\* mutant: update_citizens despawns the residents
ForEachCitizenEvicted(cs, grid, stride, frames) == {<<>>}

\* citizen.rs 142: the loop over the residents, as the set of its outcomes
RECURSIVE ForEachCitizen(_, _, _, _)
ForEachCitizen(cs, grid, stride, frames) ==
    IF cs = <<>> THEN {<<>>}
    ELSE {<<h>> \o rest : h \in CitizenSteps(Head(cs), grid, stride, frames),
                         rest \in ForEachCitizen(Tail(cs), grid, stride, frames)}

\* citizen.rs 134-238: update_citizens, in a frame whose delta gives the stride
UpdateCitizens(frames) ==
    /\ view = "TownView"
    /\ ~HasRun("update_citizens")
    /\ ran' = Append(ran, "update_citizens")
    /\ \E stride \in 1 .. MaxStride :
         citizens' \in ForEachCitizen(citizens, cells, stride, frames)
    /\ UNCHANGED <<view, next_state, cells, selected_tool, spawn_q, spawn_timer,
                   last_spawn, edits, exits, last_click, fired, island>>
    /\ UNCHANGED <<vehVars, pfVars, simVars>>

----------------------------------------------------------------------------
(* citizen.rs: vehicles *)

\* citizen.rs 267: let max_vehicles = 10
max_vehicles == 10

\* citizen.rs 364: a vehicle closer than this to the next point of its path has
\* reached it
VehicleArriveRadius == 2

\* world units a vehicle drives in the longest frame: below 50 units/s
\* (citizen.rs 318) for the 0.25 s at which the engine caps a frame's delta
MaxVehicleStride == 12

\* no call of spawn_vehicles is waiting for find_path
NoCall == [pc |-> "idle", rider |-> <<>>, start |-> NoCell, dest |-> NoCell]

\* no vehicle exists and spawn_vehicles has not run yet
NoVehicles ==
    /\ vehicles = <<>>
    /\ vehicle_q = <<>>
    /\ despawn_q = {}
    /\ vehicle_timer = 0
    /\ sv = NoCall

\* citizen.rs 261-264: the indices of the residents that are travelling
Traveling(cs) ==
    {i \in 1 .. Len(cs) : cs[i].state \in {"GoingToWork", "GoingHome", "Shopping"}}

\* citizen.rs 273-276: the positions of the cells whose building is a road
RoadCells(grid) == {c \in DOMAIN grid : grid[c].building = "Road"}

\* citizen.rs 371-376: min_by_key over the road cells; among roads at the same
\* least distance the query's iteration order decides, so any of them may come
find_nearest_road(road_cells, position) ==
    {r \in road_cells :
        \A q \in road_cells :
           manhattan_distance(r, position) <= manhattan_distance(q, position)}

\* mutant: > for >=, an eleventh vehicle is let in
VehiclesFullExceeded(live) == live > max_vehicles

\* citizen.rs 268: vehicles.iter().count() >= max_vehicles
VehiclesFull(live) == live >= max_vehicles

\* citizen.rs 307-309, 345-347: the world position of the centre of cell c, in
\* whole units from the centre of cell (0, 0)
VehiclePos(c) == <<CellPitch * c[1], CellPitch * c[2]>>

\* mutant: the vehicle is given the path without its first cell
NewVehicleBeheaded(start, dest, found, rider) ==
    [start |-> start, destination |-> dest, path |-> Tail(found), path_index |-> 0,
     pos |-> VehiclePos(start), rider |-> rider]

\* citizen.rs 299-320: the Vehicle component and Transform of a new vehicle. The
\* speed drawn at 318 enters the model through the stride of each frame; rider
\* is not a field of the program: it records the resident the vehicle was
\* spawned for, as spawn_vehicles saw it
NewVehicle(start, dest, found, rider) ==
    [start |-> start, destination |-> dest, path |-> found, path_index |-> 0,
     pos |-> VehiclePos(start), rider |-> rider]

\* grid.rs 90-98: find_path is called; its locals take their entry values
FindPathCalled(size, acc, start, goal) ==
    /\ pf_size' = size
    /\ pf_acc' = acc
    /\ pf_start' = start
    /\ pf_goal' = goal
    /\ open_set' = {<<manhattan_distance(start, goal), start>>}
    /\ came_from' = <<>>
    /\ g_score' = [p \in {start} |-> 0]
    /\ path' = <<>>
    /\ pf_cur' = start
    /\ pf_pc' = "search"
    /\ pf_result' = None
    /\ pf_expanded' = 0

\* citizen.rs 241-296: spawn_vehicles up to its return or its call of find_path;
\* the 3 s repeating timer lasts one of the given numbers of frames, and a run
\* holds at most maxLive vehicles
SpawnVehicles(maxLive, periods) ==
    /\ view = "TownView"
    /\ ~HasRun("spawn_vehicles")
    /\ sv.pc = "idle"
    /\ \E period \in periods :
         \* 250-252: a default timer (duration zero) becomes the 3 s repeating timer
         LET armed == IF vehicle_timer = 0 THEN period ELSE vehicle_timer
             \* 255-256: tick; a repeating timer that finishes starts over
             just_finished == (armed = 1)
             traveling_citizens == Traveling(citizens)
             road_cells == RoadCells(cells)
         IN /\ vehicle_timer' = IF just_finished THEN period ELSE armed - 1
            /\ fired' = IF just_finished THEN fired \cup {"spawn_vehicles"} ELSE fired
            /\ island' = island
            /\ IF \/ NotYet(just_finished)
                  \/ VehiclesFull(Len(vehicles))
                  \/ traveling_citizens = {}
                  \/ road_cells = {}
               THEN /\ ran' = Append(ran, "spawn_vehicles")
                    /\ UNCHANGED <<pfVars, sv>>
               ELSE /\ Len(vehicles) + Len(vehicle_q) < maxLive
                    /\ \E i \in traveling_citizens :
                         \E start \in find_nearest_road(road_cells, citizens[i].home),
                            dest \in find_nearest_road(road_cells,
                                                       citizens[i].destination) :
                           /\ sv' = [pc |-> "find_path", rider |-> <<citizens[i]>>,
                                     start |-> start, dest |-> dest]
                           /\ FindPathCalled(TOWN_GRID_SIZE, road_cells, start, dest)
                    /\ ran' = ran
    /\ UNCHANGED <<view, next_state, cells, selected_tool, citizens, spawn_q,
                   spawn_timer, last_spawn, edits, exits, last_click>>
    /\ UNCHANGED <<vehicles, vehicle_q, despawn_q>>
    /\ UNCHANGED simVars

\* mutant: the result of find_path is used whatever it is
PathFoundAlways(result) == TRUE

\* citizen.rs 296-297: if let Some(path) = .. { if !path.is_empty()
PathFound(result) == result # None /\ result # <<>>

\* citizen.rs 296-323: find_path has returned to spawn_vehicles; a path that is
\* Some and not empty spawns a vehicle on its first cell
SpawnVehiclesReturn ==
    /\ sv.pc = "find_path"
    /\ pf_pc = "done"
    /\ vehicle_q' = IF PathFound(pf_result)
                    THEN Append(vehicle_q,
                                NewVehicle(sv.start, sv.dest, pf_result, sv.rider))
                    ELSE vehicle_q
    /\ sv' = NoCall
    /\ ran' = Append(ran, "spawn_vehicles")
    /\ UNCHANGED <<view, next_state, cells, selected_tool, citizens, spawn_q,
                   spawn_timer, last_spawn, edits, exits, last_click, fired, island>>
    /\ UNCHANGED <<vehicles, despawn_q, vehicle_timer>>
    /\ UNCHANGED <<pfVars, simVars>>

\* citizen.rs 333: path_index >= path.len() - 1, for a path that is not empty
ReachedEnd(v) == v.path_index >= Len(v.path) - 1

\* citizen.rs 340-341: the points of the path the vehicle drives between
CurrentPoint(v) == v.path[v.path_index + 1]
NextPoint(v) == v.path[v.path_index + 2]

\* citizen.rs 356: (next_pos - current_pos).normalize(); neighbouring points of
\* a path of find_path are one cell apart along one axis
Direction(v) ==
    <<NextPoint(v)[1] - CurrentPoint(v)[1], NextPoint(v)[2] - CurrentPoint(v)[2]>>

\* the square of the distance between two world positions
DistanceSquared(p, q) ==
    (p[1] - q[1]) * (p[1] - q[1]) + (p[2] - q[2]) * (p[2] - q[2])

\* the vehicle has driven past the next point and out of its arrival radius:
\* every further stride takes it farther away
DrivenPast(v) ==
    LET d == Direction(v)
        n == VehiclePos(NextPoint(v))
    IN (v.pos[1] - n[1]) * d[1] + (v.pos[2] - n[2]) * d[2] >= VehicleArriveRadius

\* citizen.rs 357: translation += direction * speed * delta. A vehicle that has
\* driven past keeps receding along its direction for ever; the model keeps its
\* coordinates at the first point past the arrival radius
Driven(v, stride) ==
    IF DrivenPast(v) THEN v.pos
    ELSE <<v.pos[1] + stride * Direction(v)[1], v.pos[2] + stride * Direction(v)[2]>>

\* citizen.rs 364: translation.distance(next_pos) < 2.0
ReachedNext(pos, v) ==
    DistanceSquared(pos, VehiclePos(NextPoint(v)))
        < VehicleArriveRadius * VehicleArriveRadius

\* mutant: the index jumps over a point of the path
IndexSkipping(path_index, reached) == IF reached THEN path_index + 2 ELSE path_index

\* citizen.rs 364-366: the index moves on by one when the next point is reached
IndexAfter(path_index, reached) == IF reached THEN path_index + 1 ELSE path_index

\* citizen.rs 332-367: the loop body of update_vehicles for one vehicle; a
\* vehicle at the end of its path is left as it is (continue)
VehicleAfter(v, stride) ==
    IF ReachedEnd(v) THEN v
    ELSE LET moved == Driven(v, stride)
         IN [v EXCEPT !.pos = moved,
                      !.path_index = IndexAfter(@, ReachedNext(moved, v))]

\* mutant: the despawn command is forgotten
ToDespawnNone(vs) == {}

\* citizen.rs 333-336: the vehicles update_vehicles asks to despawn
ToDespawn(vs) == {i \in 1 .. Len(vs) : ReachedEnd(vs[i])}

\* citizen.rs 327-368: update_vehicles; each vehicle's stride is its speed times
\* the frame's delta, one of strides
UpdateVehicles(strides) ==
    /\ view = "TownView"
    /\ ~HasRun("update_vehicles")
    /\ sv.pc = "idle"
    /\ ran' = Append(ran, "update_vehicles")
    /\ despawn_q' = despawn_q \cup ToDespawn(vehicles)
    /\ \E stride \in [1 .. Len(vehicles) -> strides] :
         vehicles' = [i \in 1 .. Len(vehicles) |-> VehicleAfter(vehicles[i], stride[i])]
    /\ UNCHANGED <<view, next_state, cells, selected_tool, citizens, spawn_q,
                   spawn_timer, last_spawn, edits, exits, last_click, fired, island>>
    /\ UNCHANGED <<vehicle_q, vehicle_timer, sv>>
    /\ UNCHANGED <<pfVars, simVars>>

\* Commands::entity(e).despawn() applied: the vehicles left
RECURSIVE Kept(_, _, _)
Kept(vs, gone, i) ==
    IF i > Len(vs) THEN <<>>
    ELSE (IF i \in gone THEN <<>> ELSE <<vs[i]>>) \o Kept(vs, gone, i + 1)

Despawned(vs, gone) == Kept(vs, gone, 1)

----------------------------------------------------------------------------
(* The frame: every system of the Update schedule runs once, in an order the
   scheduler is free to choose; Commands are applied when all have run; a state
   change asked for takes effect before the next frame's systems *)

\* town.rs 358-373: cleanup_town despawns every TownCell (and the UI and camera)
CleanedUp == <<>>

(* The island map of island.rs *)

\* island.rs 21
ISLAND_GRID_SIZE == 20

IslandCoords == Cells(ISLAND_GRID_SIZE)

\* island.rs 52-67: the grid of Island::default(): water, with land on columns
\* and rows 5 to 14, forest on it where x + y is a multiple of 7 and mountain
\* where x * y is a multiple of 13
DefaultIslandCell(x, y) ==
    IF x \in 5 .. 14 /\ y \in 5 .. 14
    THEN IF (x * y) % 13 = 0 THEN "Mountain"
         ELSE IF (x + y) % 7 = 0 THEN "Forest"
         ELSE "Land"
    ELSE "Water"

\* island.rs 49-75: Island::default()
DefaultIsland ==
    [grid |-> [c \in IslandCoords |-> DefaultIslandCell(c[1], c[2])],
     owned_cells |-> <<>>,
     towns |-> <<>>]

\* Vec::contains
Contains(vec, position) == \E i \in 1 .. Len(vec) : vec[i] = position

\* island.rs 148: the position is within the grid
InIsland(position) == position \in IslandCoords

\* mutant: every kind of cell can be bought
PurchasableAll(cell_type) == TRUE

\* island.rs 154: the arm of land that can be bought and built on
Purchasable(cell_type) == cell_type \in {"Land", "Forest"}

\* island.rs 156-157: the click buys the cell
Buys(isl, position) ==
    /\ InIsland(position)
    /\ Purchasable(isl.grid[position])
    /\ ~Contains(isl.owned_cells, position)

\* island.rs 165-168: the click founds a town on the cell
Founds(isl, position) ==
    /\ InIsland(position)
    /\ Purchasable(isl.grid[position])
    /\ Contains(isl.owned_cells, position)
    /\ ~Contains(isl.towns, position)

\* island.rs 178, 184: the click asks for the town view
AsksForTown(isl, position) ==
    \/ Founds(isl, position)
    \/ InIsland(position) /\ isl.grid[position] = "Town"

\* island.rs 148-187: the island after a left click at a grid position
ClickIsland(isl, position) ==
    IF Buys(isl, position)
    THEN [isl EXCEPT !.owned_cells = Append(@, position)]
    ELSE IF Founds(isl, position)
    THEN [isl EXCEPT !.towns = Append(@, position),
                     !.grid[position] = "Town"]
    ELSE isl

\* a cell of plain land of the default island
FirstLand == <<5, 6>>

\* the island of a game that has reached the town view: the player has bought a
\* cell and founded a town on it
IslandWithTown == ClickIsland(ClickIsland(DefaultIsland, FirstLand), FirstLand)

\* island.rs 127-192: handle_island_interaction, with this frame's input: the
\* left click's grid position (one of targets, or NoCell)
HandleIslandInteraction(targets) ==
    /\ view = "IslandView"
    /\ ~HasRun("handle_island_interaction")
    /\ ran' = Append(ran, "handle_island_interaction")
    /\ \E left \in targets \cup {NoCell} :
         /\ left # NoCell => edits < MaxEdits
         /\ island' = IF left = NoCell THEN island ELSE ClickIsland(island, left)
         /\ next_state' = IF left # NoCell /\ AsksForTown(island, left)
                          THEN "TownView" ELSE next_state
         /\ edits' = IF left = NoCell THEN edits ELSE edits + 1
         /\ last_click' = left
    /\ UNCHANGED <<view, cells, selected_tool, citizens, spawn_q, spawn_timer,
                   last_spawn, exits, fired>>
    /\ UNCHANGED <<vehVars, pfVars, simVars>>

\* the end of a frame of the island view: the state asked for is entered, and
\* OnEnter(TownView) = setup_town creates the town grid afresh (town.rs 9)
EndIslandFrame ==
    /\ view = "IslandView"
    /\ HaveRun({"handle_island_interaction"})
    /\ ran' = <<>>
    /\ IF next_state = "TownView"
       THEN view' = "TownView" /\ cells' = FreshGrid
       ELSE UNCHANGED <<view, cells>>
    /\ next_state' = None
    /\ last_click' = NoCell
    /\ UNCHANGED <<selected_tool, citizens, spawn_q, spawn_timer, last_spawn,
                   edits, exits, fired, island>>
    /\ UNCHANGED <<vehVars, pfVars, simVars>>

----------------------------------------------------------------------------
\* the frame ends: the queued Commands are applied, and a pending state change
\* runs OnExit(TownView) = cleanup_town
EndFrame(systems) ==
    /\ view = "TownView"
    /\ HaveRun(systems)
    /\ ran' = <<>>
    /\ citizens' = citizens \o spawn_q
    /\ spawn_q' = <<>>
    /\ vehicles' = Despawned(vehicles, despawn_q) \o vehicle_q
    /\ vehicle_q' = <<>>
    /\ despawn_q' = {}
    /\ IF next_state = "IslandView"
       THEN /\ view' = "IslandView"
            /\ cells' = CleanedUp
            /\ exits' = exits + 1
       ELSE UNCHANGED <<view, cells, exits>>
    /\ next_state' = None
    /\ last_click' = NoCell
    /\ fired' = {}
    /\ island' = island
    /\ UNCHANGED <<selected_tool, spawn_timer, last_spawn, edits, vehicle_timer, sv>>
    /\ UNCHANGED <<pfVars, simVars>>

\* island.rs 178, 184 and town.rs 9: the island view asks for the town view, and
\* OnEnter(TownView) = setup_town creates the grid afresh
EnterTownView ==
    /\ view = "IslandView"
    /\ view' = "TownView"
    /\ cells' = FreshGrid
    /\ UNCHANGED <<next_state, selected_tool, citizens, spawn_q, spawn_timer,
                   last_spawn, ran, edits, exits, last_click, fired, island>>
    /\ UNCHANGED <<vehVars, pfVars, simVars>>

\* the town view has just been entered for the first time
TownInit ==
    /\ view = "TownView"
    /\ next_state = None
    /\ cells = FreshGrid
    /\ selected_tool = NoTool
    /\ citizens = <<>>
    /\ spawn_q = <<>>
    /\ spawn_timer = 0
    /\ last_spawn = [residential |-> 0, live |-> 0, created |-> FALSE]
    /\ ran = <<>>
    /\ edits = 0 /\ last_click = NoCell /\ fired = {} /\ island = IslandWithTown
    /\ exits = 0
    /\ NoVehicles

----------------------------------------------------------------------------
(* simulation.rs: update_resources *)

Min(a, b) == IF a <= b THEN a ELSE b

Max(a, b) == IF a >= b THEN a ELSE b

ResourceNames == {"power", "water", "goods", "services"}

\* simulation.rs 74-79, 82-100: ResourceInfo with the max_storage of Resources::default()
DefaultInfo(max_storage) ==
    [production |-> 0, consumption |-> 0, storage |-> 0, max_storage |-> max_storage]

\* simulation.rs 82-100: Resources::default(), as the resource when it is inserted
DefaultResources ==
    [present |-> TRUE, power |-> DefaultInfo(1000), water |-> DefaultInfo(1000),
     goods |-> DefaultInfo(500), services |-> DefaultInfo(500)]

\* the resource was never inserted: the system's Option parameter is None
NoResources == [DefaultResources EXCEPT !.present = FALSE]

\* simulation.rs 34-41: Population::default() has total 0
NoPopulation == [present |-> FALSE, total |-> 0, employed |-> 0]

\* simulation.rs 239, 242: (total as f32 * 0.1) as i32 and (total as f32 * 0.05)
\* as i32; the cast truncates, and for 0 <= total < 2^24 the f32 product of a
\* multiple of 10 (of 20) is that whole number, so the results are the quotients
Tenth(total) == total \div 10
Twentieth(total) == total \div 20

\* simulation.rs 221-236: the cells counted by the production loop
Buildings(grid, b) == Cardinality({c \in DOMAIN grid : grid[c].building = b})
Zones(grid, z) == Cardinality({c \in DOMAIN grid : grid[c].zone = z})

\* mutant: the .max(-storage) clamp is dropped
StorageUnclamped(info) ==
    Min(info.storage + (info.production - info.consumption), info.max_storage)

\* mutant: the .min(max_storage) cap is dropped
StorageUncapped(info) ==
    info.storage + Max(info.production - info.consumption, -info.storage)

\* simulation.rs 246-255: storage += (production - consumption).max(-storage),
\* then storage = storage.min(max_storage)
StorageAfter(info) ==
    Min(info.storage + Max(info.production - info.consumption, -info.storage),
        info.max_storage)

\* simulation.rs 208-255 for one resource
InfoAfter(info, production, consumption) ==
    LET counted == [info EXCEPT !.production = production,
                                !.consumption = consumption]
    IN [counted EXCEPT !.storage = StorageAfter(counted)]

\* simulation.rs 208-255: the body of update_resources after the early returns
ResourcesAfter(res, grid, total) ==
    [res EXCEPT
       !.power = InfoAfter(@, 100 * Buildings(grid, "PowerPlant"), Tenth(total)),
       !.water = InfoAfter(@, 100 * Buildings(grid, "WaterTower"), Tenth(total)),
       !.goods = InfoAfter(@, 5 * Zones(grid, "Industrial"), Twentieth(total)),
       !.services = InfoAfter(@, 5 * Zones(grid, "Commercial"), Twentieth(total))]

\* mutant: a system goes on without a resource it needs
AbsentNever(present) == FALSE

\* simulation.rs 129-132, 167-175, 199-207, 267-285: one of the Option parameters
\* of a metric system is None, and the system returns at once
Absent(present) == FALSE \in present

\* simulation.rs 192-256: update_resources; a run makes at most runs runs of the
\* metric systems
UpdateResources(runs) ==
    /\ view = "TownView"
    /\ ~HasRun("update_resources")
    /\ ran' = Append(ran, "update_resources")
    /\ sim_ticks < runs
    /\ sim_ticks' = sim_ticks + 1
    /\ prior' = resources
    /\ resources' = IF Absent({resources.present, population.present})
                    THEN resources
                    ELSE ResourcesAfter(resources, cells, population.total)
    /\ UNCHANGED <<population, economy, town, prior_funds>>
    /\ UNCHANGED <<pfVars, townRest>>

\* f32::round of the quotient n / d for d > 0: halves go away from zero
RoundDiv(n, d) ==
    IF n >= 0 THEN (2 * n + d) \div (2 * d) ELSE -((2 * (-n) + d) \div (2 * d))

\* round(n * k / 1000000) for n = a * 1000000 + r with 0 <= r <= 1000000 and
\* 0 <= k <= 25000, with every intermediate value within an i32
GrowthOf(a, r, k) ==
    LET c == r \div 1000
        d == r % 1000
    IN a * k + (c * k + 500 + (d * k) \div 1000) \div 1000

\* simulation.rs 153: (growth * population.total as f32).round() as i32, for
\* growth = tenths * delta / 1000000; round() takes halves away from zero. The
\* f32 product is the exact one for totals below 2^24 and within a few units of
\* it above
Growth(total, tenths, delta) ==
    IF total >= 0
    THEN GrowthOf(total \div 1000000, total % 1000000, tenths * delta)
    ELSE LET m == -(total + 1)
         IN -GrowthOf(m \div 1000000, (m % 1000000) + 1, tenths * delta)

\* simulation.rs 153: += on i32 with a >= 0 and b >= 0, or a < 0 and b <= 0, as a
\* build without overflow checks computes it: the sum wraps around modulo 2^32
\* (a build with overflow checks panics where the sum wraps)
AddI32(a, b) ==
    IF a >= 0 /\ b > I32Max - a THEN ((a - I32Max) - 1) + ((b - I32Max) - 1)
    ELSE IF a < 0 /\ b < ((-I32Max) - 1) - a THEN (a + I32Max) + 1 + (b + I32Max) + 1
    ELSE a + b

\* simulation.rs 134-157: the population after update_population, in a frame of
\* delta thousandths of a second. growth_rate is the 0.01 of
\* Population::default() (nothing changes it), and the growth factor
\* min(0.1 * residential, 10) is held in tenths, so that growth * total is
\* total * tenths * delta / 1000000
PopulationAfter(pop, grid, delta) ==
    LET growth_factor == Min(Zones(grid, "Residential"), 100)
        total == AddI32(pop.total, Growth(pop.total, growth_factor, delta))
        max_employment == (Zones(grid, "Commercial") + Zones(grid, "Industrial")) * 5
    IN [pop EXCEPT !.total = total, !.employed = Min(total, max_employment)]

\* simulation.rs 123-158: update_population, in a frame of one of the given
\* elapsed times
UpdatePopulation(runs, deltas) ==
    /\ view = "TownView"
    /\ ~HasRun("update_population")
    /\ ran' = Append(ran, "update_population")
    /\ sim_ticks < runs
    /\ sim_ticks' = sim_ticks + 1
    /\ \E delta \in deltas :
         population' = IF Absent({population.present}) THEN population
                       ELSE PopulationAfter(population, cells, delta)
    /\ UNCHANGED <<resources, prior, economy, town, prior_funds>>
    /\ UNCHANGED <<pfVars, townRest>>

----------------------------------------------------------------------------
(* simulation.rs: update_economy and update_happiness.  The f32 fields tax_rate
   and happiness, and the elapsed time, are held in thousandths *)

\* simulation.rs 53-62: Economy::default(), as the resource when it is inserted
DefaultEconomy ==
    [present |-> TRUE, funds |-> 10000, income |-> 0, expenses |-> 0, tax_rate |-> 100]

\* the resource was never inserted: the system's Option parameter is None
NoEconomy == [DefaultEconomy EXCEPT !.present = FALSE]

\* town.rs 68-75: the Town resource, of which the metric systems use happiness
NoTown == [present |-> FALSE, happiness |-> 0]

\* an f32 product cast with `as i32`: the whole part, towards zero, of
\* n * thousandths / 1000
TruncProduct(n, thousandths) ==
    IF n * thousandths >= 0 THEN (n * thousandths) \div 1000
    ELSE -((-(n * thousandths)) \div 1000)

\* mutant: tax_rate scales the expenses as well as the income
NetIncomeAllTaxed(income, expenses, tax_rate) ==
    TruncProduct(income - expenses, tax_rate)

\* simulation.rs 187: (income as f32 * tax_rate) as i32 - expenses
NetIncome(income, expenses, tax_rate) == TruncProduct(income, tax_rate) - expenses

\* simulation.rs 177-188: the body of update_economy after the early returns
EconomyAfter(eco, pop) ==
    LET income == pop.total + 2 * pop.employed
        expenses == TruncProduct(pop.total, 500)
    IN [eco EXCEPT !.income = income,
                   !.expenses = expenses,
                   !.funds = @ + NetIncome(income, expenses, eco.tax_rate)]

\* simulation.rs 161-189: update_economy
UpdateEconomy(runs) ==
    /\ view = "TownView"
    /\ ~HasRun("update_economy")
    /\ ran' = Append(ran, "update_economy")
    /\ sim_ticks < runs
    /\ sim_ticks' = sim_ticks + 1
    /\ prior_funds' = economy.funds
    /\ economy' = IF Absent({economy.present, population.present})
                  THEN economy
                  ELSE EconomyAfter(economy, population)
    /\ UNCHANGED <<resources, population, prior, town>>
    /\ UNCHANGED <<pfVars, townRest>>

\* the product of two values held in thousandths, in thousandths
MulMilli(a, b) ==
    IF a * b >= 0 THEN (a * b) \div 1000 ELSE -((-(a * b)) \div 1000)

\* simulation.rs 288-300: target_happiness
TargetHappiness(res, pop, eco) ==
    LET resource_factor ==
            IF res.power.storage > 0 /\ res.water.storage > 0 THEN 1000 ELSE 500
        employment_factor ==
            IF pop.total > 0 THEN (pop.employed * 1000) \div pop.total ELSE 1000
        tax_factor == 1000 - eco.tax_rate
    IN MulMilli(MulMilli(resource_factor, employment_factor), tax_factor)

\* f32::clamp
Clamp(x, lo, hi) == IF x < lo THEN lo ELSE IF x > hi THEN hi ELSE x

\* mutant: the adjusted happiness is not clamped
HappinessUnclamped(happiness, target, delta) ==
    happiness + MulMilli(target - happiness, delta \div 10)

\* simulation.rs 306-310: happiness moves towards the target by
\* adjustment_rate = 0.1 * delta_seconds and is clamped to [0, 1]
HappinessAfter(happiness, target, delta) ==
    Clamp(happiness + MulMilli(target - happiness, delta \div 10), 0, 1000)

\* the elapsed times drawn, in thousandths of a second: a short frame, the
\* longest frame of the engine's virtual clock, and spans long enough to carry
\* the adjustment past the target
Deltas == {16, 250, 15000, 40000}

\* simulation.rs 259-311: update_happiness, in a frame of one of the given
\* elapsed times
UpdateHappiness(runs, deltas) ==
    /\ view = "TownView"
    /\ ~HasRun("update_happiness")
    /\ ran' = Append(ran, "update_happiness")
    /\ sim_ticks < runs
    /\ sim_ticks' = sim_ticks + 1
    /\ \E delta \in deltas :
         town' = IF Absent({town.present, resources.present, population.present,
                            economy.present})
                 THEN town
                 ELSE [town EXCEPT !.happiness =
                          HappinessAfter(@, TargetHappiness(resources, population,
                                                            economy), delta)]
    /\ UNCHANGED <<resources, population, prior, economy, prior_funds>>
    /\ UNCHANGED <<pfVars, townRest>>

----------------------------------------------------------------------------
(* Inputs and specifications of the metric systems *)

\* the cells the metric systems meet: an untouched cell, and the cells the
\* building and zone tools that matter to update_resources leave on one
SimButtons ==
    {BuildingButton("PowerPlant"), BuildingButton("WaterTower"),
     ZoneButton("Industrial"), ZoneButton("Commercial")}
SimCells ==
    {ApplyTool(SelectTool(NoTool, b), DefaultCell) : b \in SimButtons \cup {NoButton}}

\* the grids of SimInit: the cells of SimTargets are built or zoned, the rest are
\* as setup_town left them
SimTargets == {<<0, 0>>, <<1, 0>>}
SimGrids ==
    {[c \in Coords |-> IF c \in SimTargets THEN painted[c] ELSE DefaultCell] :
        painted \in [SimTargets -> SimCells]}

\* the storage values drawn for a resource: empty, nearly empty, full
StorageDraws(info) == {0, 1, info.max_storage}

\* Resources as earlier runs of update_resources may have left it
DrawnResources ==
    {[DefaultResources EXCEPT !.power.storage = p, !.water.storage = w,
                              !.goods.storage = g, !.services.storage = s] :
        p \in StorageDraws(DefaultResources.power),
        w \in StorageDraws(DefaultResources.water),
        g \in StorageDraws(DefaultResources.goods),
        s \in StorageDraws(DefaultResources.services)}

\* no town metrics exist (the plugins insert none)
SimIdle ==
    /\ resources = NoResources
    /\ population = NoPopulation
    /\ prior = NoResources
    /\ sim_ticks = 0
    /\ economy = NoEconomy
    /\ town = NoTown
    /\ prior_funds = NoEconomy.funds

\* the town view, with any grid, any population and any earlier storage; either
\* resource may be missing
SimInit ==
    /\ view = "TownView" /\ next_state = None
    /\ cells \in SimGrids
    /\ selected_tool = NoTool /\ citizens = <<>> /\ spawn_q = <<>>
    /\ spawn_timer = 0
    /\ last_spawn = [residential |-> 0, live |-> 0, created |-> FALSE]
    /\ ran = <<>> /\ edits = 0 /\ last_click = NoCell /\ fired = {} /\ island = IslandWithTown /\ exits = 0
    /\ NoVehicles
    /\ resources \in DrawnResources \cup {NoResources}
    /\ population \in {NoPopulation} \cup
                      {[present |-> TRUE, total |-> t, employed |-> 0] :
                          t \in 0 .. MaxPopulation}
    /\ prior = resources
    /\ sim_ticks = 0
    /\ economy = NoEconomy
    /\ town = NoTown
    /\ prior_funds = NoEconomy.funds

SimNext ==
    \/ UpdateResources(MaxTicks)
    \/ EndFrame({"update_resources"})

\* update_resources applied to drawn town metrics
InitSim == SimInit /\ PathIdle

SpecSim == InitSim /\ [][SimNext]_vars

\* the populations drawn: every total up to MaxPopulation with nobody, half and
\* everybody employed, and the population of the worked example
PopulationDraws ==
    UNION {{[present |-> TRUE, total |-> t, employed |-> e] :
               e \in {0, t \div 2, t}} : t \in 0 .. MaxPopulation}
    \cup {[present |-> TRUE, total |-> 100, employed |-> 50]}

\* the tax rates drawn, in thousandths: the default 0.1 among them, and rates
\* outside [0, 1]
TaxRates == {-500, 0, 100, 1000, 1500}

EconomyDraws ==
    {[DefaultEconomy EXCEPT !.tax_rate = r, !.funds = f] :
        r \in TaxRates, f \in {0, DefaultEconomy.funds}}

\* update_economy meets any population and economy; either may be missing
EconomyInit ==
    /\ resources = NoResources /\ prior = NoResources /\ town = NoTown
    /\ population \in PopulationDraws \cup {NoPopulation}
    /\ economy \in EconomyDraws \cup {NoEconomy}
    /\ prior_funds = economy.funds
    /\ sim_ticks = 0

EconomyNext ==
    \/ UpdateEconomy(MaxTicks)
    \/ EndFrame({"update_economy"})

InitEconomy == EconomyInit /\ TownInit /\ PathIdle

\* update_economy applied to drawn populations and economies
SpecEconomy == InitEconomy /\ [][EconomyNext]_vars

\* the happiness values drawn, in thousandths, some outside [0, 1]
HappinessDraws == {-500, 0, 300, 1000, 1500}

\* update_happiness meets any happiness, tax rate, population and power and
\* water storage; any of the four resources may be missing
HappinessInit ==
    /\ resources \in
          {[DefaultResources EXCEPT !.power.storage = p, !.water.storage = w] :
              p \in {0, 1}, w \in {0, 1}} \cup {NoResources}
    /\ prior = resources
    /\ population \in
          {p \in PopulationDraws : p.total \in {0, MaxPopulation}}
          \cup {[present |-> TRUE, total |-> MaxPopulation,
                 employed |-> 2 * MaxPopulation], NoPopulation}
    /\ economy \in {e \in EconomyDraws : e.funds = DefaultEconomy.funds}
                   \cup {NoEconomy}
    /\ prior_funds = economy.funds
    /\ town \in {[present |-> TRUE, happiness |-> h] : h \in HappinessDraws}
                \cup {NoTown}
    /\ sim_ticks = 0

HappinessNext ==
    \/ UpdateHappiness(MaxTicks, Deltas)
    \/ EndFrame({"update_happiness"})

InitHappiness == HappinessInit /\ TownInit /\ PathIdle

\* update_happiness applied to drawn town metrics
SpecHappiness == InitHappiness /\ [][HappinessNext]_vars

\* a town for the vehicle systems: a home, a workplace and a shop, with roads on
\* the given cells (a zone tool leaves a road in place, town.rs 311-313)
VehicleHome == <<0, 0>>
VehicleWork == <<1, 1>>
VehicleShop == <<1, 0>>

VehicleGrid(roads) ==
    [c \in Coords |->
        [zone |-> IF c = VehicleHome THEN "Residential"
                  ELSE IF c = VehicleWork THEN "Industrial"
                  ELSE IF c = VehicleShop THEN "Commercial"
                  ELSE "None",
         building |-> IF c \in roads THEN "Road" ELSE "None",
         accessible |-> FALSE]]

\* the resident of that town at a moment of its day: at home, setting out for
\* work or for the shop, at work, or setting out for home from work
VehicleResidents ==
    LET c == NewCitizen(VehicleHome, VehicleWork, [left |-> 1, just_finished |-> FALSE])
    IN {c,
        [c EXCEPT !.state = "GoingToWork", !.destination = VehicleWork],
        [c EXCEPT !.state = "Shopping", !.destination = VehicleShop],
        [c EXCEPT !.state = "AtWork", !.destination = VehicleWork,
                  !.pos = AtCell(VehicleWork)],
        [c EXCEPT !.state = "GoingHome", !.destination = VehicleHome,
                  !.pos = AtCell(VehicleWork)]}

\* the town view with roads laid and at most one resident, before its first frame
VehicleInit ==
    /\ view = "TownView"
    /\ next_state = None
    /\ \E roads \in SUBSET Coords : cells = VehicleGrid(roads)
    /\ selected_tool = NoTool
    /\ citizens \in {<<>>} \cup {<<c>> : c \in VehicleResidents}
    /\ spawn_q = <<>>
    /\ spawn_timer = 0
    /\ last_spawn = [residential |-> 0, live |-> 0, created |-> FALSE]
    /\ ran = <<>>
    /\ edits = 0 /\ last_click = NoCell /\ fired = {} /\ island = IslandWithTown
    /\ exits = 0
    /\ NoVehicles

\* the strides drawn: a third of a cell, a stride that takes a vehicle past the
\* next point in two frames, and one that stops a unit short of it
VehicleStrides == {4, 7, MaxVehicleStride - 1}

VehicleSystems == {"spawn_vehicles", "update_vehicles"}

VehicleNext ==
    \/ SpawnVehicles(MaxVehicles, 1 .. MaxTimerFrames)
    \/ FindPathExhausted
    \/ FindPathGoal
    \/ FindPathExpand
    \/ FindPathReconstruct
    \/ SpawnVehiclesReturn
    \/ UpdateVehicles(VehicleStrides)
    \/ EndFrame(VehicleSystems)

InitVehicles == VehicleInit /\ PathIdle /\ SimIdle

\* the town view: spawn_vehicles with its call of find_path, and update_vehicles
SpecVehicles == InitVehicles /\ [][VehicleNext]_vars

----------------------------------------------------------------------------
(* Specifications *)

\* one call of Grid::find_path
InitPath == PathInit /\ TownInit /\ SimIdle

SpecPath == InitPath /\ [][PathNext]_vars

TownSystems == {"handle_town_interaction", "spawn_citizens", "update_citizens"}

\* the input of SpecTown: two cells are zoned and rezoned
TownButtons ==
    {ZoneButton("Residential"), ZoneButton("Commercial"), ZoneButton("Industrial")}
TownTargets == {<<0, 0>>, <<1, 0>>}

TownNext ==
    \/ HandleTownInteraction(TownButtons, TownTargets)
    \/ SpawnCitizens(MaxResidents, 1 .. MaxTimerFrames)
    \/ UpdateCitizens(1 .. MaxTimerFrames)
    \/ EndFrame(TownSystems)
    \/ EnterTownView

\* the town view with the resident systems
InitTown == TownInit /\ PathIdle /\ SimIdle

SpecTown == InitTown /\ [][TownNext]_vars

SpawnSystems == {"handle_town_interaction", "spawn_citizens"}

\* the input of SpecSpawn: two cells are zoned and rezoned, clicks may miss the grid
SpawnButtons == {ZoneButton("Residential"), ZoneButton("Commercial")}
SpawnTargets == {<<0, 0>>, <<1, 0>>, OffGrid}

SpawnNext ==
    \/ HandleTownInteraction(SpawnButtons, SpawnTargets)
    \/ SpawnCitizens(MaxSpawned, {MaxTimerFrames})
    \/ EndFrame(SpawnSystems)
    \/ EnterTownView

\* the town view with the systems that create residents and edit the grid
SpecSpawn == InitTown /\ [][SpawnNext]_vars

\* simulation.rs 11-16: the systems SimulationPlugin adds to Update
MetricSystems ==
    {"update_population", "update_economy", "update_resources", "update_happiness"}

\* citizen.rs 13-18: the systems CitizenPlugin adds to Update
CitizenSystems ==
    {"spawn_citizens", "update_citizens", "spawn_vehicles", "update_vehicles"}

\* the frames of a run in which the metric systems run
MetricRuns == Cardinality(MetricSystems) * MaxTicks

\* a frame's elapsed time in thousandths of a second: a frame at 60 Hz, and the
\* 0.25 s at which the engine caps a frame's delta
FrameDeltas == {16, 250}

\* the town metrics at the start of a frame: each resource inserted or not
MetricsInit ==
    /\ resources \in {NoResources, DefaultResources}
    /\ prior = resources
    /\ population \in {NoPopulation,
                       [present |-> TRUE, total |-> MaxPopulation, employed |-> 0]}
    /\ economy \in {NoEconomy, DefaultEconomy}
    /\ prior_funds = economy.funds
    /\ town \in {NoTown, [present |-> TRUE, happiness |-> 500]}
    /\ sim_ticks = 0

\* the town of the metric frames: the unedited grid, or one with a home, a
\* workplace and a shop zoned
MetricsTown ==
    /\ view = "TownView"
    /\ next_state = None
    /\ cells \in {FreshGrid, VehicleGrid({})}
    /\ selected_tool = NoTool
    /\ citizens = <<>>
    /\ spawn_q = <<>>
    /\ spawn_timer = 0
    /\ last_spawn = [residential |-> 0, live |-> 0, created |-> FALSE]
    /\ ran = <<>>
    /\ edits = 0 /\ last_click = NoCell /\ fired = {} /\ island = IslandWithTown
    /\ exits = 0
    /\ NoVehicles

MetricsNext ==
    \/ UpdatePopulation(MetricRuns, FrameDeltas)
    \/ UpdateEconomy(MetricRuns)
    \/ UpdateResources(MetricRuns)
    \/ UpdateHappiness(MetricRuns, FrameDeltas)
    \/ EndFrame(MetricSystems)

InitMetrics == MetricsInit /\ MetricsTown /\ PathIdle

\* the frames of SimulationPlugin: its four systems run once per frame, in an
\* order the scheduler is free to choose (the tuple has no .chain())
SpecMetrics == InitMetrics /\ [][MetricsNext]_vars

\* the metric systems run in the first frame of a run of SpecSchedule
ScheduleRuns == Cardinality(MetricSystems)

ScheduleNext ==
    \/ UpdatePopulation(ScheduleRuns, FrameDeltas)
    \/ UpdateEconomy(ScheduleRuns)
    \/ UpdateResources(ScheduleRuns)
    \/ UpdateHappiness(ScheduleRuns, FrameDeltas)
    \/ SpawnCitizens(MaxResidents, {MaxTimerFrames})
    \/ UpdateCitizens({MaxTimerFrames})
    \/ SpawnVehicles(MaxVehicles, {MaxTimerFrames})
    \/ UpdateVehicles(VehicleStrides)
    \/ EndFrame(MetricSystems \cup CitizenSystems)

\* the frames of SimulationPlugin and CitizenPlugin together, in the town as
\* GamePlugin sets it up: no metric resource is inserted, the grid is unedited
SpecSchedule == InitTown /\ [][ScheduleNext]_vars

\* the town in which the cap on vehicles is met: roads on the home, the shop and
\* the workplace, and a resident on its way to work; and the same town without
\* the road on the shop, where no path leads to work
VehicleCapInit ==
    /\ view = "TownView"
    /\ next_state = None
    /\ cells \in {VehicleGrid({VehicleHome, VehicleShop, VehicleWork}),
                 VehicleGrid({VehicleHome, VehicleWork})}
    /\ selected_tool = NoTool
    /\ citizens \in {<<c>> : c \in {r \in VehicleResidents : r.state = "GoingToWork"}}
    /\ spawn_q = <<>>
    /\ spawn_timer = 0
    /\ last_spawn = [residential |-> 0, live |-> 0, created |-> FALSE]
    /\ ran = <<>>
    /\ edits = 0 /\ last_click = NoCell /\ fired = {} /\ island = IslandWithTown
    /\ exits = 0
    /\ NoVehicles

\* the spawn timer finishes in every frame or in every second one, and every
\* vehicle drives past the next point of its path, so that vehicles are spawned
\* faster than they leave; the run itself allows one vehicle more than the cap
VehicleCapNext ==
    \/ SpawnVehicles(max_vehicles + 1, 1 .. MaxTimerFrames)
    \/ FindPathExhausted
    \/ FindPathGoal
    \/ FindPathExpand
    \/ FindPathReconstruct
    \/ SpawnVehiclesReturn
    \/ UpdateVehicles({7})
    \/ EndFrame(VehicleSystems)

InitVehicleCap == VehicleCapInit /\ PathIdle /\ SimIdle

\* the town view with the vehicle systems, up to the cap on vehicles
SpecVehicleCap == InitVehicleCap /\ [][VehicleCapNext]_vars

----------------------------------------------------------------------------
(* Reference notions for the path claims, independent of the search *)

Neighbours(c) == {<<c[1], c[2] - 1>>, <<c[1] - 1, c[2]>>,
                  <<c[1] + 1, c[2]>>, <<c[1], c[2] + 1>>}

\* the cells a route may step onto: in bounds and accessible
Walkable == {c \in Cells(pf_size) : c \in pf_acc}

\* breadth-first layers from the frontier over the cells of W; the number of
\* orthogonal steps to target, or -1 when target is out of reach
RECURSIVE BFS(_, _, _, _, _)
BFS(W, frontier, seen, target, d) ==
    IF target \in frontier THEN d
    ELSE LET next == (UNION {Neighbours(c) \cap W : c \in frontier}) \ seen
         IN IF next = {} THEN -1
            ELSE BFS(W, next, seen \cup next, target, d + 1)

\* steps of a shortest route from a to b that steps only onto cells of W
\* (a itself is where the route stands, not a cell it steps onto)
Distance(W, a, b) == BFS(W, {a}, {a}, b, 0)

Returned == pf_pc = "done" /\ pf_result # None

ScenarioPath == << <<2, 2>>, <<3, 2>>, <<4, 2>>, <<5, 2>>, <<6, 2>>, <<7, 2>> >>

InScenario == /\ pf_size = Scenario.size /\ pf_acc = Scenario.road
              /\ pf_start = <<2, 2>> /\ pf_goal = <<7, 2>>

----------------------------------------------------------------------------
(* Claims about Grid::find_path *)

\* C1: when start and goal are joined by an orthogonal in-bounds path whose cells
\* (start and goal included) are all accessible, find_path returns a path whose
\* number of steps equals the breadth-first shortest distance.
C1_Optimal ==
    (/\ pf_pc = "done"
     /\ pf_start \in Walkable
     /\ pf_goal \in Walkable
     /\ Distance(Walkable, pf_start, pf_goal) >= 0)
    => /\ pf_result # None
       /\ Len(pf_result) - 1 = Distance(Walkable, pf_start, pf_goal)

\* C1 witness: a returned path that had to go around an inaccessible cell
C1_Witness ==
    /\ Returned
    /\ pf_start \in Walkable
    /\ Len(pf_result) - 1 > manhattan_distance(pf_start, pf_goal)

\* C2: find_path terminates (the search loop expands at most once per cell of
\* the grid and the reconstruction loop adds every cell at most once, each step
\* of either loop counting up), and it returns None whenever
\* no orthogonal in-bounds sequence of accessible cells leads from start to goal
\* (start is where the sequence stands; every cell it steps onto, goal included,
\* must be accessible).
C2_TerminatesAndNone ==
    /\ pf_expanded <= Cardinality(Cells(pf_size))
    /\ Len(path) <= Cardinality(Cells(pf_size))
    /\ (pf_pc = "done" /\ Distance(Walkable, pf_start, pf_goal) < 0)
          => pf_result = None

\* C2 witness: the search ran out of nodes after expanding several, goal accessible
C2_Witness ==
    /\ pf_pc = "done"
    /\ pf_result = None
    /\ pf_goal \in Walkable
    /\ pf_expanded >= 3

\* C3: every coordinate of a returned path other than its two endpoints is in
\* bounds and accessible.
C3_InteriorAccessible ==
    Returned =>
      \A i \in 2 .. Len(pf_result) - 1 :
         is_in_bounds(pf_result[i], pf_size) /\ is_accessible(pf_result[i])

\* C3 witness: a returned path with interior cells and an inaccessible start
C3_Witness ==
    /\ Returned
    /\ Len(pf_result) >= 4
    /\ pf_start \notin pf_acc

\* C4 as claimed: with start # goal joined by a route whose intermediate cells are
\* accessible, a path is returned even if start or goal is inaccessible.
C4_Original ==
    (/\ pf_pc = "done"
     /\ pf_start # pf_goal
     /\ \E n \in Neighbours(pf_goal) :
           n = pf_start \/ (n \in Walkable /\ Distance(Walkable, pf_start, n) >= 0))
    => pf_result # None

\* C4 amended: the start cell need not be accessible, the goal cell must be:
\* with start # goal, a route whose cells after start (goal included) are all
\* accessible yields a path even if start is inaccessible, and an inaccessible
\* goal yields None.
C4_StartExemptGoalRequired ==
    (pf_pc = "done" /\ pf_start # pf_goal)
    => /\ Distance(Walkable, pf_start, pf_goal) >= 0 => pf_result # None
       /\ pf_goal \notin pf_acc => pf_result = None

\* C4 witness: a path returned from an inaccessible start to a distinct goal
C4_Witness ==
    /\ Returned
    /\ pf_start # pf_goal
    /\ pf_start \notin pf_acc
    /\ Len(pf_result) >= 3

\* C5: with start = goal the single-cell path is returned and no node is expanded,
\* whatever is_accessible says about the cell.
C5_Trivial ==
    (pf_start = pf_goal)
    => /\ pf_expanded = 0
       /\ pf_pc = "done" => (pf_result # None /\ pf_result = <<pf_start>>)

\* C5 witness: the call returned on an inaccessible start = goal
C5_Witness ==
    /\ pf_pc = "done"
    /\ pf_start = pf_goal
    /\ pf_start \notin pf_acc
    /\ pf_result # None
    /\ pf_result = <<pf_start>>

\* C6: a returned path begins with start, ends with goal, moves one orthogonal
\* step at a time and visits no cell twice.
C6_WellFormed ==
    Returned =>
      /\ Len(pf_result) >= 1
      /\ pf_result[1] = pf_start
      /\ pf_result[Len(pf_result)] = pf_goal
      /\ \A i \in 1 .. Len(pf_result) - 1 :
            manhattan_distance(pf_result[i], pf_result[i + 1]) = 1
      /\ \A i, j \in 1 .. Len(pf_result) : i # j => pf_result[i] # pf_result[j]

\* C6 witness: a returned path that turns a corner
C6_Witness ==
    /\ Returned
    /\ Len(pf_result) >= 3
    /\ pf_start[1] # pf_goal[1]
    /\ pf_start[2] # pf_goal[2]

\* C7: on the 10x10 grid whose accessible cells are (x,2), x in 2..7, the call
\* find_path((2,2),(7,2)) returns the straight six-cell path, whichever equal
\* f_score node the heap yields.
C7_Scenario ==
    (InScenario /\ pf_pc = "done") => (pf_result # None /\ pf_result = ScenarioPath)

\* C7 witness: the scenario call has returned
C7_Witness == InScenario /\ Returned /\ Len(pf_result) = 6

----------------------------------------------------------------------------
(* Claims about spawn_citizens *)

\* the residents that are live once this frame's Commands are applied
LiveAfter == Len(citizens) + Len(spawn_q)

\* C8: whatever the interleaving of spawn_citizens invocations, zone edits and
\* frames, after an invocation that creates a resident the live residents number
\* at most 5 times the cells zoned Residential at that invocation, and an
\* invocation that finds live residents >= 5 x that count creates none.
C8_Capacity ==
    /\ last_spawn.created =>
          LiveAfter <= CitizensPerZone * last_spawn.residential
    /\ last_spawn.live >= CitizensPerZone * last_spawn.residential =>
          ~last_spawn.created

\* C8 witness: five residents were created on one residential cell, and the
\* invocation that then found the capacity used up created none
C8_Witness ==
    /\ last_spawn = [residential |-> 1, live |-> CitizensPerZone, created |-> FALSE]
    /\ Len(citizens) = CitizensPerZone
    /\ spawn_q = <<>>

----------------------------------------------------------------------------
(* Claims about update_citizens *)

\* the states a resident of the states S can come to be in through calls of
\* update_citizens with any positive stride and any random draws, followed up to
\* and including its next AtHome (from there on the grid's zones decide)
RECURSIVE FutureStates(_)
FutureStates(S) ==
    LET next == S \cup UNION {CitizenSteps(c, cells, stride, 1 .. MaxTimerFrames) :
                                 c \in {x \in S : x.state # "AtHome"},
                                 stride \in 1 .. MaxStride}
    IN IF next = S THEN S ELSE FutureStates(next)

\* some run of update_citizens has the resident AtHome
CanReturnHome(c) == \E f \in FutureStates({c}) : f.state = "AtHome"

\* C9: every resident, in whichever of AtHome, GoingToWork, AtWork, GoingHome and
\* Shopping it is, is eventually AtHome again under repeated ticks of positive
\* elapsed time and arbitrary zone edits; no travelling or working state holds
\* it forever.  Stated as what every finite run must then show: no resident is
\* ever in a state from which no sequence of ticks leads to AtHome.
C9_NoStateHoldsForever ==
    \A i \in 1 .. Len(citizens) : CanReturnHome(citizens[i])

\* a resident sent shopping to the cell it stands on: its first stride is along
\* the normalized zero vector, and its position is NaN from then on
ShoppingWhereItStands(c) ==
    /\ c.state = "Shopping"
    /\ c.pos.nan \/ StandsOn(c.pos) = c.destination

\* the residents that can no longer return are exactly those sent shopping to
\* the cell they stand on, which is their home cell rezoned Commercial
HeldOnlyWhereItStands ==
    \A i \in 1 .. Len(citizens) :
       /\ ~CanReturnHome(citizens[i]) <=> ShoppingWhereItStands(citizens[i])
       /\ ShoppingWhereItStands(citizens[i]) =>
             citizens[i].destination = citizens[i].home

----------------------------------------------------------------------------
(* Claims about update_resources *)

\* update_resources has run and found both resources
Updated == sim_ticks >= 1 /\ resources.present /\ population.present

\* C10: after every update_resources step, whatever the population, the grid and
\* the earlier storage, each of power, water, goods and services has
\* 0 <= storage <= max_storage, and a net deficit larger than the earlier
\* storage leaves the storage at 0.
C10_StorageInRange ==
    Updated =>
      \A r \in ResourceNames :
         /\ 0 <= resources[r].storage
         /\ resources[r].storage <= resources[r].max_storage
         /\ (resources[r].consumption - resources[r].production > prior[r].storage
                => resources[r].storage = 0)

\* C10 witness: power was in store, the step's net deficit was larger than the
\* store and left it at 0, while the full goods store stayed at its maximum
C10_Witness ==
    /\ Updated
    /\ prior.power.storage > 0
    /\ resources.power.consumption - resources.power.production > prior.power.storage
    /\ resources.power.storage = 0
    /\ prior.goods.storage = prior.goods.max_storage
    /\ resources.goods.production > resources.goods.consumption
    /\ resources.goods.storage = resources.goods.max_storage

----------------------------------------------------------------------------
(* Claims about update_happiness and update_economy *)

\* update_happiness has run and found the four resources
HappinessUpdated ==
    /\ sim_ticks >= 1
    /\ town.present /\ resources.present /\ population.present /\ economy.present

\* C11: after every update_happiness step town.happiness lies in [0, 1], whatever
\* the earlier happiness, the tax rate, the population, the resource storage and
\* the elapsed time.
C11_HappinessInRange ==
    HappinessUpdated => (0 <= town.happiness /\ town.happiness <= 1000)

\* C11 witness: with a tax rate above 1 the target is negative, and the step has
\* left happiness at the lower end of the range
C11_Witness ==
    /\ HappinessUpdated
    /\ economy.tax_rate > 1000
    /\ population.employed > 0
    /\ TargetHappiness(resources, population, economy) < 0
    /\ town.happiness = 0

\* update_economy has run and found both resources
EconomyUpdated == sim_ticks >= 1 /\ economy.present /\ population.present

\* the population, economy and tax rate of the worked example
WorkedExample ==
    population.total = 100 /\ population.employed = 50 /\ economy.tax_rate = 100

----------------------------------------------------------------------------
(* The order of the systems within a frame *)

\* the phase of a frame a system belongs to: the town metrics, the resident and
\* vehicle state machines, the spawning of residents and vehicles
Phase(system) ==
    IF system \in MetricSystems THEN 1
    ELSE IF system \in {"update_citizens", "update_vehicles"} THEN 2
    ELSE 3

\* C13: in every frame spent in the town view the town-metric updates run before
\* the resident and vehicle state-machine updates, and these run before the
\* resident and vehicle spawn logic: no system has run before a system of an
\* earlier phase.  The plugins add their systems without any ordering, so the
\* scheduler may start a frame with any of them
C13_PhaseOrder ==
    \A i, j \in 1 .. Len(ran) : i < j => Phase(ran[i]) <= Phase(ran[j])

\* the place of a metric system in the order population, economy, resources,
\* happiness
MetricRank(system) ==
    CASE system = "update_population" -> 1
      [] system = "update_economy" -> 2
      [] system = "update_resources" -> 3
      [] system = "update_happiness" -> 4

\* C14: within every tick the four metric steps run in the order population,
\* economy, resources, happiness, so that once all four have run the income of
\* the economy is the one of the population as that tick left it.  The tuple of
\* SimulationPlugin has no .chain(): update_economy may run first and read
\* the population of the tick before
C14_MetricOrder ==
    /\ \A i, j \in 1 .. Len(ran) :
          i < j => MetricRank(ran[i]) < MetricRank(ran[j])
    /\ (HaveRun(MetricSystems) /\ economy.present /\ population.present)
          => economy.income = population.total + 2 * population.employed

----------------------------------------------------------------------------
(* Vehicles *)

\* the vehicles that exist or are about to: the live ones and those whose spawn
\* command waits for the end of the frame
AllVehicles ==
    {vehicles[i] : i \in 1 .. Len(vehicles)} \cup {vehicle_q[i] : i \in 1 .. Len(vehicle_q)}

\* C15: the path_index of every vehicle is at least 0 and below max(1, len(path)):
\* update_vehicles never moves it past the last index of the path
C15_PathIndexInRange ==
    \A v \in AllVehicles :
       0 <= v.path_index /\ v.path_index < Max(1, Len(v.path))

\* C15 witness: a vehicle has been driven to the last point of a path of several
\* cells, one index at a time
C15_Witness ==
    \E i \in 1 .. Len(vehicles) :
       /\ Len(vehicles[i].path) >= 3
       /\ vehicles[i].path_index = Len(vehicles[i].path) - 1

\* a step of update_vehicles
UpdateVehiclesStep == ran' = Append(ran, "update_vehicles")

\* C16: in each step of update_vehicles the vehicles asked to be despawned are
\* those whose path_index was the final index of their path when the step
\* began, and the step changes neither the position nor the path_index of such a
\* vehicle; the end of the frame removes these vehicles and no other
C16_DespawnAtEnd ==
    [][/\ UpdateVehiclesStep =>
             \A i \in 1 .. Len(vehicles) :
                /\ i \in despawn_q' <=>
                      vehicles[i].path_index = Len(vehicles[i].path) - 1
                /\ i \in despawn_q' =>
                      /\ vehicles'[i].pos = vehicles[i].pos
                      /\ vehicles'[i].path_index = vehicles[i].path_index
       /\ ran' = <<>> =>
             vehicles' = Despawned(vehicles, despawn_q) \o vehicle_q]_vars

\* C16 witness: update_vehicles has run on two vehicles, one at the end of its
\* path, which is to be despawned where it stands, and one on its way
C16_Witness ==
    /\ HasRun("update_vehicles")
    /\ Len(vehicles) = 2
    /\ \E i, j \in 1 .. 2 :
         /\ i \in despawn_q /\ ReachedEnd(vehicles[i])
         /\ j \notin despawn_q /\ ~ReachedEnd(vehicles[j])
         /\ vehicles[j].pos # VehiclePos(vehicles[j].start)

\* C17: there are never more than 10 live vehicles, and the spawn commands of a
\* frame, all of them spawn_vehicles', hold at most one vehicle
C17_VehicleCap ==
    /\ Len(vehicles) <= max_vehicles
    /\ Len(vehicle_q) <= 1
    /\ Len(vehicles) + Len(vehicle_q) <= max_vehicles

\* C17 witness: with 10 live vehicles spawn_vehicles has run, for a travelling
\* resident in a town with roads, and has spawned nothing
C17_Witness ==
    /\ Len(vehicles) = max_vehicles
    /\ HasRun("spawn_vehicles")
    /\ vehicle_q = <<>>
    /\ Traveling(citizens) # {}
    /\ RoadCells(cells) # {}

\* a step of spawn_vehicles: its run up to the return or the call of find_path,
\* or its run after find_path has returned
SpawnVehiclesStep == ran' = Append(ran, "spawn_vehicles") \/ sv' # sv

\* spawn_vehicles has nobody or nothing to spawn a vehicle for
NothingToSpawn ==
    \/ Traveling(citizens) = {}
    \/ RoadCells(cells) = {}
    \/ (sv.pc = "find_path" /\ pf_pc = "done" /\ pf_result = None)

\* C18: when no resident is travelling, when no cell is a road, or when
\* find_path has returned no path, a step of spawn_vehicles ends the system's
\* run for the frame, spawns no vehicle and leaves the residents, the vehicles
\* and the grid as they were
C18_SilentSkip ==
    [][(SpawnVehiclesStep /\ NothingToSpawn) =>
          /\ sv' = NoCall
          /\ ran' = Append(ran, "spawn_vehicles")
          /\ UNCHANGED <<vehicle_q, vehicles, despawn_q, citizens, cells>>]_vars

\* C18 witness: the find_path called by this frame's spawn_vehicles has returned
\* no path between two road cells, and the system has ended without a vehicle
C18_Witness ==
    /\ HasRun("spawn_vehicles")
    /\ sv = NoCall
    /\ pf_pc = "done" /\ pf_result = None
    /\ pf_start # pf_goal
    /\ vehicle_q = <<>>
    /\ vehicles = <<>>

\* the cell a travelling resident has set out from: its home on the way to work
\* or to a shop, and on the way home the workplace or shop it is leaving, which
\* is where it stands or the far end of the stretch it has walked
OriginOfTravel(c) ==
    IF c.state # "GoingHome" THEN c.home
    ELSE IF c.pos.to # c.home THEN c.pos.to ELSE c.pos.from

\* C19: every vehicle starts on a road cell nearest to the origin of travel of
\* the resident it was spawned for, and its destination is a road cell nearest
\* to that resident's destination.  spawn_vehicles measures from the resident's
\* home whatever its state (citizen.rs 287), so the vehicle of a resident going
\* home starts next to the home it is going to
C19_NearestRoads ==
    \A v \in AllVehicles :
       /\ v.start \in find_nearest_road(RoadCells(cells), OriginOfTravel(v.rider[1]))
       /\ v.destination \in find_nearest_road(RoadCells(cells), v.rider[1].destination)

----------------------------------------------------------------------------
(* The destination of a resident *)

\* the destination of every resident at home or going home is its home, and of
\* every resident at work or going to work its workplace
DestinationHomeOrWork ==
    \A i \in 1 .. Len(citizens) :
       LET c == citizens[i]
       IN /\ c.state \in {"AtHome", "GoingHome"} => c.destination = c.home
          /\ c.state \in {"GoingToWork", "AtWork"} => c.destination = c.workplace

\* C20: in every state the destination of a resident is its home when it is at
\* home or going home, its workplace when it is at work or going to work, and a
\* cell zoned Commercial at present when it is shopping.  The shop is chosen
\* among the Commercial cells of the moment (citizen.rs 164-171) and kept until
\* the resident arrives, whatever an edit makes of the cell.  The formula speaks
\* of the town view that was never left, where the grid is the one the
\* residents were spawned on
C20_DestinationFitsState ==
    /\ DestinationHomeOrWork
    /\ exits = 0 =>
          \A i \in 1 .. Len(citizens) :
             citizens[i].state = "Shopping"
                => citizens[i].destination \in ZoneCells(cells, {"Commercial"})

\* the step is a run of update_citizens
UpdateCitizensStep == ran' = Append(ran, "update_citizens")

\* the resident is at home and its timer finishes on the tick about to happen
HomeTimerExpires(c) == c.state = "AtHome" /\ c.timer.left = 1

\* C21: when the timer of a resident at home expires, the resident sets out for
\* work only if it has a workplace, which becomes its destination; a resident
\* without a workplace goes shopping at a cell zoned Commercial at that tick when
\* there is one, and stays at home when there is none; a resident without a
\* workplace is never going to work or at work
C21_LeavingHome ==
    [][UpdateCitizensStep =>
        \A i \in 1 .. Len(citizens) :
            LET c == citizens[i]
                d == citizens'[i]
                commercial == ZoneCells(cells, {"Commercial"})
            IN /\ (HomeTimerExpires(c) /\ d.state = "GoingToWork") =>
                     (c.workplace # NoCell /\ d.destination = c.workplace)
               /\ (HomeTimerExpires(c) /\ c.workplace = NoCell /\ commercial # {}) =>
                     (d.state = "Shopping" /\ d.destination \in commercial)
               /\ (HomeTimerExpires(c) /\ c.workplace = NoCell /\ commercial = {}) =>
                     d.state = "AtHome"
               /\ d.workplace = NoCell => d.state \notin {"GoingToWork", "AtWork"}]_vars

\* a resident without a workplace has gone shopping
C21_Witness ==
    \E i \in 1 .. Len(citizens) :
        /\ citizens[i].workplace = NoCell
        /\ citizens[i].state = "Shopping"
        /\ HasRun("update_citizens")

----------------------------------------------------------------------------
(* The grid editor alone: every tool button, clicks on two cells and off the grid *)

EditSystems == {"handle_town_interaction"}
EditTargets == {<<0, 0>>, <<1, 1>>, OffGrid}

EditNext ==
    \/ HandleTownInteraction(ToolButtons, EditTargets)
    \/ EndFrame(EditSystems)
    \/ EnterTownView

SpecEdit == InitTown /\ [][EditNext]_vars

\* the building types other than None and Road
Structures == {"TownHall", "PowerPlant", "WaterTower"}

\* no cell holds both a structure and a zone
StructuresUnzoned ==
    \A c \in DOMAIN cells : cells[c].building \in Structures => cells[c].zone = "None"

\* the step is a run of handle_town_interaction with a left click on a grid cell
EditStep ==
    /\ ran' = Append(ran, "handle_town_interaction")
    /\ last_click' \in DOMAIN cells

\* C22: in every reachable grid state a cell whose building is neither None nor
\* Road has zone None; placing a non-road building clears the zone of the cell,
\* and applying a zone clears a non-road building and leaves a Road in place
C22_StructureOrZone ==
    /\ []StructuresUnzoned
    /\ [][EditStep =>
            LET g == last_click'
                tool == selected_tool'
            IN /\ tool.building_type \in Structures =>
                     /\ cells'[g].building = tool.building_type
                     /\ cells'[g].zone = "None"
               /\ tool.zone_type # None =>
                     /\ cells'[g].zone = tool.zone_type
                     /\ cells'[g].building =
                            IF cells[g].building = "Road" THEN "Road" ELSE "None"]_vars

\* a structure stands on the cell clicked in this frame, and another cell is zoned
C22_Witness ==
    /\ last_click \in DOMAIN cells
    /\ cells[last_click].building \in Structures
    /\ cells[last_click].zone = "None"
    /\ selected_tool.building_type \in Structures
    /\ \E c \in DOMAIN cells : cells[c].zone = "Residential"

\* C23: in every reachable grid state, a cell is accessible if and only if its
\* building is Road
C23_AccessibleIffRoad ==
    \A c \in DOMAIN cells : cells[c].accessible <=> (cells[c].building = "Road")

\* the grid position lies outside [0, N) x [0, N)
OutOfBounds(g) ==
    g[1] < 0 \/ g[1] >= TOWN_GRID_SIZE \/ g[2] < 0 \/ g[2] >= TOWN_GRID_SIZE

\* C24: an edit whose grid coordinate falls outside [0, N) x [0, N) changes the
\* zone and the building of no cell
C24_OutOfBoundsRejected ==
    [][(/\ ran' = Append(ran, "handle_town_interaction")
        /\ last_click' # NoCell
        /\ OutOfBounds(last_click')) =>
            \A c \in DOMAIN cells :
                /\ cells'[c].zone = cells[c].zone
                /\ cells'[c].building = cells[c].building]_vars

\* a click off the grid has been made with a tool selected and a cell already edited
C24_Witness ==
    /\ last_click # NoCell
    /\ OutOfBounds(last_click)
    /\ selected_tool # NoTool
    /\ cells # FreshGrid

\* the step is a run of the metric system
MetricStep(system) == ran' = Append(ran, system)

C26_RoundedConsumption ==
    Updated =>
        /\ resources.power.consumption = RoundDiv(population.total, 10)
        /\ resources.water.consumption = RoundDiv(population.total, 10)
        /\ resources.goods.consumption = RoundDiv(population.total, 20)
        /\ resources.services.consumption = RoundDiv(population.total, 20)

\* C27: exiting the town view destroys every live resident together with the
\* grid cells: once the view has been left no resident is live, so that none
\* created before the exit is live after re-entry
C27_ResidentsLeaveWithTown ==
    view = "IslandView" => citizens = <<>>

\* citizen.rs 147-236: the state changes spelled out in update_citizens
DailyCycle ==
    {<<"AtHome", "GoingToWork">>, <<"AtHome", "Shopping">>,
     <<"GoingToWork", "AtWork">>, <<"AtWork", "GoingHome">>,
     <<"Shopping", "GoingHome">>, <<"GoingHome", "AtHome">>}

\* C28: the only state changes update_citizens makes are AtHome -> GoingToWork,
\* AtHome -> Shopping, GoingToWork -> AtWork, AtWork -> GoingHome,
\* Shopping -> GoingHome and GoingHome -> AtHome; AtWork is left only when the
\* timer expires, and Shopping is left only on arrival, either of them to
\* GoingHome with the destination set to home
C28_DailyCycle ==
    [][UpdateCitizensStep =>
        \A i \in 1 .. Len(citizens) :
            LET c == citizens[i]
                d == citizens'[i]
            IN /\ d.state # c.state => <<c.state, d.state>> \in DailyCycle
               /\ (c.state = "AtWork" /\ d.state # "AtWork") =>
                     /\ c.timer.left = 1
                     /\ d.state = "GoingHome"
                     /\ d.destination = c.home
               /\ (c.state = "Shopping" /\ d.state # "Shopping") =>
                     /\ d.state = "GoingHome"
                     /\ d.destination = c.home]_vars

\* a resident has left its workplace for home when its timer expired
C28_Witness ==
    \E i \in 1 .. Len(citizens) :
        /\ citizens[i].state = "GoingHome"
        /\ citizens[i].workplace # NoCell
        /\ citizens[i].pos = AtCell(citizens[i].workplace)
        /\ citizens[i].destination = citizens[i].home
        /\ citizens[i].home # citizens[i].workplace
        /\ HasRun("update_citizens")

\* C29: whenever a resident leaves a travelling state (GoingToWork, GoingHome or
\* Shopping) on arrival, its position at the end of that tick is exactly the
\* world position of the destination it was travelling to
C29_SnappedOnArrival ==
    [][UpdateCitizensStep =>
        \A i \in 1 .. Len(citizens) :
            LET c == citizens[i]
                d == citizens'[i]
            IN (c.state \in {"GoingToWork", "GoingHome", "Shopping"}
                    /\ d.state # c.state) =>
                  (~d.pos.nan /\ StandsOn(d.pos) = c.destination)]_vars

\* the step is a run of spawn_citizens that queues the spawn of a resident
SpawnCitizensStep ==
    /\ ran' = Append(ran, "spawn_citizens")
    /\ Len(spawn_q') = Len(spawn_q) + 1

\* C30: every resident created by spawn_citizens starts in state AtHome with
\* destination = home; its home is a cell zoned Residential at spawn time, and its
\* workplace is a cell zoned Commercial or Industrial at spawn time if there is
\* one, and absent otherwise
C30_NewResident ==
    [][SpawnCitizensStep =>
        LET new == spawn_q'[Len(spawn_q')]
            workplaces == ZoneCells(cells, {"Commercial", "Industrial"})
        IN /\ new.state = "AtHome"
           /\ new.destination = new.home
           /\ new.home \in DOMAIN cells
           /\ cells[new.home].zone = "Residential"
           /\ workplaces # {} => new.workplace \in workplaces
           /\ workplaces = {} => new.workplace = NoCell]_vars

\* a resident with a workplace has been created in this frame
C30_Witness ==
    /\ HasRun("spawn_citizens")
    /\ spawn_q # <<>>
    /\ spawn_q[1].workplace # NoCell
    /\ spawn_q[1].home # spawn_q[1].workplace

----------------------------------------------------------------------------
(* The two systems that create agents, in a town that is zoned and has roads *)

AgentSystems == {"spawn_citizens", "spawn_vehicles"}

AgentNext ==
    \/ SpawnCitizens(MaxResidents + 1, {MaxTimerFrames})
    \/ SpawnVehicles(MaxVehicles, 1 .. MaxTimerFrames)
    \/ FindPathExhausted
    \/ FindPathGoal
    \/ FindPathExpand
    \/ FindPathReconstruct
    \/ SpawnVehiclesReturn
    \/ EndFrame(AgentSystems)

SpecAgents == InitVehicles /\ [][AgentNext]_vars

\* C31: an invocation of spawn_citizens creates at most one resident, and only
\* on a tick where its 2-second repeating timer has just finished; an invocation
\* of spawn_vehicles creates at most one vehicle, and only on a tick where its
\* 3-second repeating timer has just finished
C31_RateLimited ==
    [][/\ Len(spawn_q') > Len(spawn_q) =>
            /\ Len(spawn_q') = Len(spawn_q) + 1
            /\ ran' = Append(ran, "spawn_citizens")
            /\ "spawn_citizens" \in fired'
       /\ Len(vehicle_q') > Len(vehicle_q) =>
            /\ Len(vehicle_q') = Len(vehicle_q) + 1
            /\ ran' = Append(ran, "spawn_vehicles")
            /\ "spawn_vehicles" \in fired'
       /\ (ran' = Append(ran, "spawn_citizens") /\ "spawn_citizens" \notin fired') =>
            spawn_q' = spawn_q
       /\ (ran' = Append(ran, "spawn_vehicles") /\ "spawn_vehicles" \notin fired') =>
            vehicle_q' = vehicle_q]_vars

\* both timers have finished in this frame, and a resident and a vehicle were
\* created
C31_Witness ==
    /\ fired = AgentSystems
    /\ Len(spawn_q) = 1
    /\ Len(vehicle_q) = 1

\* C32: no step in the town view, a run of a system, a grid edit or the end of a
\* frame, removes a resident or changes a resident's home or workplace: the live
\* residents only grow in number and each keeps the home and workplace it was
\* spawned with
C32_ResidentsStay ==
    [][view = "TownView" =>
        /\ Len(citizens') >= Len(citizens)
        /\ \A i \in 1 .. Len(citizens) :
              /\ citizens'[i].home = citizens[i].home
              /\ citizens'[i].workplace = citizens[i].workplace]_vars

\* a resident has lived through a run of update_citizens after its home was
\* rezoned
C32_Witness ==
    /\ view = "TownView"
    /\ exits = 0
    /\ HasRun("update_citizens")
    /\ \E i \in 1 .. Len(citizens) :
          /\ cells[citizens[i].home].zone # "Residential"
          /\ citizens[i].state # "AtHome"

\* C33: every vehicle has a path that is not empty, begins at vehicle.start and
\* ends at vehicle.destination, and is created with path_index = 0; so
\* path.len() - 1 in update_vehicles does not underflow, and a vehicle that is
\* not at the end of its path has a cell at path_index + 1
C33_PathWellFormed ==
    /\ \A v \in AllVehicles :
          /\ Len(v.path) >= 1
          /\ v.path[1] = v.start
          /\ v.path[Len(v.path)] = v.destination
          /\ v.path_index >= Len(v.path) - 1 \/ v.path_index + 2 \in DOMAIN v.path
    /\ \A i \in 1 .. Len(vehicle_q) : vehicle_q[i].path_index = 0

\* update_vehicles has read path[path_index + 1] of a vehicle on a path of
\* several cells, and has met a vehicle whose path is a single cell
C33_Witness ==
    /\ HasRun("update_vehicles")
    /\ \E i, j \in 1 .. Len(vehicles) :
          /\ Len(vehicles[i].path) >= 2
          /\ vehicles[i].pos # VehiclePos(vehicles[i].start)
          /\ Len(vehicles[j].path) = 1

\* the states update_vehicles can bring vehicles of the set S to, in any number
\* of frames of positive elapsed time
RECURSIVE VehicleFutures(_)
VehicleFutures(S) ==
    LET next == S \cup {VehicleAfter(v, stride) :
                            v \in S, stride \in 1 .. MaxVehicleStride}
    IN IF next = S THEN S ELSE VehicleFutures(next)

\* some sequence of frames takes the vehicle to the final index of its path,
\* where update_vehicles despawns it
CanArrive(v) == \E f \in VehicleFutures({v}) : ReachedEnd(f)

\* C34: under repeated ticking with positive elapsed time every spawned vehicle
\* eventually reaches the final index of its path and is despawned; no vehicle
\* stays live forever.  Stated as what every finite run must then show: no
\* vehicle is ever in a state from which no sequence of ticks leads to the
\* final index of its path.
C34_NoVehicleLiveForever ==
    \A i \in 1 .. Len(vehicles) : CanArrive(vehicles[i])

\* the vehicles that can no longer arrive are exactly those driven past the next
\* point of their path and out of its arrival radius
StrandedOnlyWhenDrivenPast ==
    \A i \in 1 .. Len(vehicles) :
       ~CanArrive(vehicles[i]) <=>
           (~ReachedEnd(vehicles[i]) /\ DrivenPast(vehicles[i]))

----------------------------------------------------------------------------
(* update_population alone: any number of residential cells, a town with or
   without a resident, and populations from none to the largest i32 *)

\* the totals drawn: nobody, one, a village, a town large enough to grow in one
\* frame, and the largest total an i32 holds
PopulationTotals == {0, 1, MaxPopulation, 1000 * MaxPopulation, I32Max}

PopulationGrids ==
    {[c \in Coords |->
         IF c \in homes
         THEN ApplyTool(SelectTool(NoTool, ZoneButton("Residential")), DefaultCell)
         ELSE DefaultCell] : homes \in SUBSET Coords}

InitPopulation ==
    /\ view = "TownView"
    /\ next_state = None
    /\ cells \in PopulationGrids
    /\ selected_tool = NoTool
    /\ citizens \in {<<>>, <<NewCitizen(VehicleHome, NoCell,
                                        [left |-> 1, just_finished |-> FALSE])>>}
    /\ spawn_q = <<>>
    /\ spawn_timer = 0
    /\ last_spawn = [residential |-> 0, live |-> 0, created |-> FALSE]
    /\ ran = <<>>
    /\ edits = 0 /\ last_click = NoCell /\ fired = {} /\ island = IslandWithTown
    /\ exits = 0
    /\ NoVehicles
    /\ PathIdle
    /\ resources = NoResources
    /\ prior = NoResources
    /\ economy = NoEconomy
    /\ prior_funds = NoEconomy.funds
    /\ town = NoTown
    /\ sim_ticks = 0
    /\ population \in {NoPopulation} \cup
                      {[present |-> TRUE, total |-> t, employed |-> 0] :
                          t \in PopulationTotals}

PopulationNext ==
    \/ UpdatePopulation(MaxTicks, FrameDeltas)
    \/ EndFrame({"update_population"})

SpecPopulation == InitPopulation /\ [][PopulationNext]_vars

\* C35: if population.total is 0 before update_population it is 0 after it, for
\* every grid and elapsed time; update_population never decreases a non-negative
\* population.total; and the growth is multiplicative in the current total, the
\* same whatever the number of live residents
C35_GrowthOnly ==
    [][(MetricStep("update_population") /\ population.present) =>
        /\ population.total = 0 => population'.total = 0
        /\ population.total >= 0 => population'.total >= population.total
        /\ \E delta \in FrameDeltas :
              population'.total - population.total =
                  Growth(population.total, Min(Zones(cells, "Residential"), 100),
                         delta)]_vars

\* a population of nobody stays so, in every town and every frame
ZeroStaysZero ==
    [][(MetricStep("update_population") /\ population.present
            /\ population.total = 0) => population'.total = 0]_vars

\* a total that the frame's growth keeps within an i32 never decreases, and grows
\* by the rounded product of the total, the growth rate, the growth factor and
\* the frame's delta, whoever lives in the town
GrowsWhileInRange ==
    [][(MetricStep("update_population") /\ population.present
            /\ population.total >= 0
            /\ \A delta \in FrameDeltas :
                  Growth(population.total, Min(Zones(cells, "Residential"), 100),
                         delta) <= I32Max - population.total) =>
        /\ population'.total >= population.total
        /\ \E delta \in FrameDeltas :
              population'.total - population.total =
                  Growth(population.total, Min(Zones(cells, "Residential"), 100),
                         delta)]_vars

----------------------------------------------------------------------------
(* The island view: buying land and founding towns, with visits to the towns *)

\* the grid positions clicked: plain land, forest, mountain, mountain where a
\* forest would be, water inside and at the corner of the map, and positions
\* beyond the map
IslandTargets ==
    {FirstLand, <<6, 6>>, <<5, 9>>, <<13, 5>>, <<13, 8>>, <<15, 15>>, <<0, 0>>,
     <<ISLAND_GRID_SIZE, 5>>, OffGrid}

\* the island view has just been entered for the first time: setup_island has
\* inserted Island::default() (island.rs 80-82)
InitIsland ==
    /\ view = "IslandView"
    /\ next_state = None
    /\ cells = CleanedUp
    /\ selected_tool = NoTool
    /\ citizens = <<>>
    /\ spawn_q = <<>>
    /\ spawn_timer = 0
    /\ last_spawn = [residential |-> 0, live |-> 0, created |-> FALSE]
    /\ ran = <<>>
    /\ edits = 0 /\ last_click = NoCell /\ fired = {} /\ island = DefaultIsland
    /\ exits = 0
    /\ NoVehicles
    /\ PathIdle
    /\ resources = NoResources
    /\ prior = NoResources
    /\ economy = NoEconomy
    /\ prior_funds = NoEconomy.funds
    /\ town = NoTown
    /\ sim_ticks = 0
    /\ population = NoPopulation

IslandNext ==
    \/ HandleIslandInteraction(IslandTargets)
    \/ EndIslandFrame
    \/ HandleTownInteraction({}, {})
    \/ EndFrame({"handle_town_interaction"})

SpecIsland == InitIsland /\ [][IslandNext]_vars

\* no position occurs twice in the vector
NoDuplicates(vec) == \A i, j \in 1 .. Len(vec) : vec[i] = vec[j] => i = j

\* C36: after any sequence of clicks on the island map every position in
\* island.towns is also in island.owned_cells and its grid cell is a Town,
\* owned_cells and towns hold no position twice, and no Water or Mountain cell is
\* owned; and a town is founded only by a click on a Land or Forest cell that is
\* already owned
C36_IslandOwnership ==
    /\ [](/\ \A i \in 1 .. Len(island.towns) :
               /\ Contains(island.owned_cells, island.towns[i])
               /\ island.grid[island.towns[i]] = "Town"
          /\ NoDuplicates(island.owned_cells)
          /\ NoDuplicates(island.towns)
          /\ \A i \in 1 .. Len(island.owned_cells) :
               /\ island.owned_cells[i] \in IslandCoords
               /\ island.grid[island.owned_cells[i]] \notin {"Water", "Mountain"})
    /\ [][island'.towns # island.towns =>
            /\ last_click' \in IslandCoords
            /\ island.grid[last_click'] \in {"Land", "Forest"}
            /\ Contains(island.owned_cells, last_click')
            /\ island'.towns = Append(island.towns, last_click')
            /\ island'.owned_cells = island.owned_cells]_vars

\* back on the island after a visit to the town founded, the player has clicked
\* on the town, on a mountain or on water
C36_Witness ==
    /\ view = "IslandView"
    /\ exits = 1
    /\ island.towns = <<FirstLand>>
    /\ last_click \in {FirstLand, <<13, 5>>, <<0, 0>>}

====
